---- MODULE Spec2Model ----
(***************************************************************************)
(* Jog / teach / plate-path state machine of the Resource Locator Program  *)
(* (resource_locator_program: app.py, shared_widgets.py,                   *)
(* resource_locator.py, path_teacher.py).                                  *)
(*                                                                         *)
(* Lengths are integers in hundredths of a millimetre, so that 0.1 mm is   *)
(* 10 and round(v, 1) is a real rounding to a multiple of 10.              *)
(* An optional value is the empty tuple (None) or a one-element tuple; a   *)
(* Coordinate is a 3-tuple <<x, y, z>>; an unset Coordinate is None.       *)
(* An exception that leaves a Qt slot ends that handler; what the handler  *)
(* had already written stays written.  PyQt6 then calls sys.excepthook and, *)
(* with no hook installed (the program installs none), qFatal(), which      *)
(* aborts the application; with a hook installed the event loop goes on.    *)
(* Both outcomes are kept.                                                 *)
(***************************************************************************)
EXTENDS Integers, Sequences, FiniteSets, TLC

\* ------------------------------------------------------------------ bounds
\* Largest number of relative jogs (pad or keyboard) in one run.
MaxJogs == 1

\* Largest number of direct move_<dir> calls in one run of the call-level
\* specification SpecJog.
MaxApiJogs == 2

\* Largest number of direct set_location calls that latch a position in one
\* run of SpecJog.
MaxApiSets == 1

\* Largest number of backend calls that raise in one run.
MaxFaults == 1

\* Largest number of relative jogs (pad or keyboard) in the Path Teacher in
\* one run of SpecPath.
MaxPathJogs == 1

\* Largest length of the waypoint list in SpecPath.
MaxPoints == 2

\* Largest number of set_location_signal emissions of the gamepad thread in
\* one run of SpecPad.
MaxPadSignals == 1

\* Largest number of set_location_signal emissions of the gamepad thread in
\* one run of SpecLoop.
MaxLoopSignals == 2

\* Largest number of layout files picked after the first one in one run.
MaxPicks == 1

\* Largest number of setup threads that the runs let be alive together.
MaxSetupThreads == 2

\* Keys that the iSWAP command line processes in one run
MaxKeys == 4

\* --------------------------------------------------------------- geometry
None == <<>>

Some(v) == <<v>>

Axes == {1, 2, 3}

\* pylabrobot Coordinate arithmetic as used by resource_here
CoordAdd(a, b) == <<a[1] + b[1], a[2] + b[2], a[3] + b[3]>>

CoordSub(a, b) == <<a[1] - b[1], a[2] - b[2], a[3] - b[3]>>

\* Python round(v, 1): nearest multiple of 0.1, ties to the even tenth
Round1(v) ==
  LET q == v \div 10
      r == v % 10
  IN  IF r < 5 THEN 10 * q
      ELSE IF r > 5 THEN 10 * (q + 1)
      ELSE IF q % 2 = 0 THEN 10 * q ELSE 10 * (q + 1)

\* ------------------------------------------------------- the loaded layout
\* Step sizes offered by the direction pad: 0.1 mm, 1 mm, 10 mm, 100 mm
StepOptions == {10, 100, 1000, 10000}

\* LocationEditor._d after construction: 10 (mm)
DefaultD == 1000

\* Tip racks of the layout (located; their A1 spot is picked up and dropped)
TipRackNames == {"tips1", "tips2"}

\* tip_spot.get_absolute_location() + tip_spot.center() of A1, per rack
TipSpotCenter(rack) ==
  IF rack = "tips1" THEN <<10025, 5000, 10000>> ELSE <<30000, 5035, 10000>>

\* tip.total_tip_length of the tip in A1, per rack
TotalTipLength(rack) == IF rack = "tips1" THEN 5990 ELSE 9510

\* Resources of the layout whose location is None when the layout is loaded
UnlocatedNames == {"carrier", "plate"}

\* isinstance(resource, Plate)
IsPlate(r) == r = "plate"

\* resource.parent
ParentOf(r) == IF r = "plate" THEN "carrier" ELSE IF r = "carrier" THEN "base" ELSE "deck"

\* location of the resources that the layout file already locates
FixedLocation(r) == IF r = "base" THEN <<10000, 10000, 0>> ELSE <<0, 0, 0>>

\* resource.get_size_z()
SizeZ(r) == IF r = "carrier" THEN 1000 ELSE 1450

\* resource.get_item("A1").location
A1Location(r) == <<500, 500, 0>>

\* resource.get_item("A1").center()
A1Center(r) == <<400, 400, 0>>

\* Plates of the layout that are located when the layout is loaded
PlateNames == {"plateA", "plateB"}

\* Carrier sites of the plate carriers of the layout
SiteNames == {"site1", "site2"}

\* plate.parent when it is a CarrierSite of a plate carrier ("" otherwise):
\* plateA sits on site1, plateB on another resource of the deck
PlateSite(p) == IF p = "plateA" THEN "site1" ELSE ""

\* site.get_absolute_location()
SiteAbsolute(s) == IF s = "site1" THEN <<40000, 20005, 11235>> ELSE <<40000, 30015, 11235>>

\* plate.get_absolute_location(); the program never reassigns a plate, so it
\* is the location the layout file gives
PlateAbsolute(p) == IF p = "plateA" THEN SiteAbsolute("site1") ELSE <<60010, 30000, 10000>>

\* plate.get_size_z()
PlateSizeZ(p) == 1450

\* PICKUP_DISTANCE_FROM_TOP = 13.2 mm
PICKUP_DISTANCE_FROM_TOP == 1320

\* z=200.0 of the set_location that follows a release
ReleaseZ == 20000

\* Step sizes the operator selects in a run (the pad starts at DefaultD)
StepChoices == {10}


\* ------------------------------------------------------------------ state
VARIABLES
  phase,               \* "built" after TeachingTools.build_ui, "running" after start(),
                       \* "aborted" after the program was terminated
  index,               \* TeachingTools.index, the tab that is shown
  tabEnabled,          \* QTabWidget.isTabEnabled per tab
  prepared,            \* prepare_for_manual_channel_operation has succeeded
  invoked,             \* history: prepare_for_manual_channel_operation was called
  channel,             \* backend: last value each axis of the channel was moved to
  _location,           \* LocationEditor._location of the Resource Locator
  _d,                  \* LocationEditor._d
  controller_disabled, \* LocationEditor.controller_disabled
  padEnabled,          \* self.pad.isEnabled()
  displayEnabled,      \* self.display.isEnabled()
  displayValue,        \* LocationDisplayLine.value of display_x, display_y, display_z
  tip_racks,           \* TipRacksWidget.tip_racks: rack name -> has_tip
  rackButtons,         \* TipRacksWidget.buttons: rack name -> isEnabled()
  unlocatedEnabled,    \* unlocated_resources_widget.isEnabled()
  teachButtons,        \* UnlocatedResourcesWidget.buttons: enabled flag set on the button
  resLocation,         \* resource.location of the resources unlocated at load time
  last,                \* history: the last handler that moved, picked, dropped or taught
  base,                \* history: _location after the last absolute set
  jogSum,              \* history: per-axis sum of the signed steps jogged since then
  jogsOk,              \* history: every backend call of those jogs succeeded
  nJogs,               \* history: number of relative jogs so far
  nSets,               \* history: number of direct set_location calls that latched
  nFaults              \* history: number of backend calls that raised so far

\* state of the Path Teacher tab (PathTeacherWidget and its widgets)
VARIABLES
  pt_location,            \* PathTeacherWidget._location: value of its Coordinate object
  pt_d,                   \* PathTeacherWidget._d
  pt_controller_disabled, \* PathTeacherWidget.controller_disabled
  pt_padEnabled,          \* PathTeacherWidget.pad.isEnabled()
  pt_displayEnabled,      \* PathTeacherWidget.display.isEnabled()
  pt_displayValue,        \* values shown by PathTeacherWidget.display
  picked_up_plate,        \* PathTeacherWidget.picked_up_plate
  points,                 \* BuildPathEditorWidget.points: a list of references
  destination,            \* BuildPathEditorWidget.destination
  python_code,            \* BuildPathEditorWidget.python_code: the code it shows
  buildPathEnabled,       \* add_intermediate_button / add_destination_button enabled
  platesBoxEnabled,       \* PlatesWidget.plates_box.isEnabled()
  carrierSitesBoxEnabled, \* PlatesWidget.carrier_sites_box.isEnabled()
  siteShown,              \* PlatesWidget.carrier_sites_rows: site -> row is shown
  gripped,                \* backend: the plate the gripper holds
  ptLast,                 \* history: the last handler that gripped, released or moved
  pointsAdded,            \* history: per waypoint, the position when it was added
  pointRemoved,           \* history: a waypoint was removed while the plate is held
  nPathJogs               \* history: number of jogs in the Path Teacher so far

ptVars == <<pt_location, pt_d, pt_controller_disabled, pt_padEnabled,
            pt_displayEnabled, pt_displayValue, picked_up_plate, points,
            destination, python_code, buildPathEnabled, platesBoxEnabled,
            carrierSitesBoxEnabled, siteShown, gripped, ptLast, pointsAdded,
            pointRemoved, nPathJogs>>

\* state of the gamepad (GamepadListener and the signal it emits)
VARIABLES
  padPc,                  \* GamepadListener.run: where the gamepad thread is
  signals,                \* set_location_signal: emissions queued for the main thread
  nEmits,                 \* history: number of emissions so far
  alerts,                 \* show_error_alert: the handlers that wait in msg.exec(),
                          \* the innermost last
  requests                \* history: for each queued emission, the arguments that
                          \* GamepadListener.set_location was called with

padVars == <<padPc, signals, nEmits, alerts, requests>>

\* state of the setup screen (LoadWidget and its setup thread)
VARIABLES
  lh,                     \* LoadWidget.lh: which LiquidHandler object is loaded
                          \* (1 for the first file picked, 2 for the next, ...)
  setup_button,           \* the Setup button is shown
  file_picker,            \* the file picker is enabled
  setup_threads,          \* the running setup threads: for each, the object whose
                          \* setup() it runs
  setup_finished_signal,  \* emissions of the setup threads queued for the main thread
  setup_alert             \* history: the last slot of the signal showed "Setup failed."

setupVars == <<lh, setup_button, file_picker, setup_threads, setup_finished_signal,
               setup_alert>>

\* state of the iSWAP command line (iswap.py: the CLI object and its loop)
VARIABLES
  cliPc,                  \* where the program is: "constructed", "running" (in the
                          \* loop of CLI.run), "exited" or "crashed"
  cli,                    \* the CLI object: its fields, star included
  key,                    \* CLI.run: the key handed to process_key last
  nKeys,                  \* history: number of keys processed so far
  keyed,                  \* history: the last move or rotation that was performed
                          \* with a movement or rotation key
  stepWhenOn              \* history: the step size when precision mode was last
                          \* turned on

cliVars == <<cliPc, cli, key, nKeys, keyed, stepWhenOn>>

vars == <<phase, index, tabEnabled, prepared, invoked, channel, _location, _d,
          controller_disabled, padEnabled, displayEnabled, displayValue,
          tip_racks, rackButtons, unlocatedEnabled, teachButtons, resLocation,
          last, base, jogSum, jogsOk, nJogs, nSets, nFaults, ptVars, padVars,
          setupVars, cliVars>>

Tabs == {0, 1}

\* A reference held by the path builder: nothing, a carrier site, the
\* Coordinate object that PathTeacherWidget._location refers to, or a
\* Coordinate object of its own with value at
NoRef == [kind |-> "none", name |-> "", at |-> None]

SiteRef(s) == [kind |-> "site", name |-> s, at |-> None]

LocationObject == [kind |-> "object", name |-> "_location", at |-> None]

ValueRef(c) == [kind |-> "value", name |-> "", at |-> c]

\* history record of a Path Teacher handler: handler, its subject, whether its
\* backend call (grip or release, else the plate move) returned, whether it
\* showed an error alert, the exception that left it, _location before it,
\* the value of the location it was given (and the site, if it was given as a
\* site), and the backend commands it issued
PtIdle == [op |-> "none", who |-> "", site |-> "", ok |-> TRUE, alert |-> FALSE,
           raised |-> "", pre |-> None, target |-> None, cmds |-> <<>>]

NoArgs == <<None, None, None>>

\* history record: handler, its subject, the arguments it gave set_location,
\* _location before it, the channel moves it commanded, whether its backend
\* call (the tip pickup or drop, else the channel moves) returned, whether it
\* showed an error alert, and the exception that left it
Idle == [op |-> "none", who |-> "", args |-> NoArgs, pre |-> None,
         cmds |-> <<>>, ok |-> TRUE, alert |-> FALSE, raised |-> ""]

\* --------------------------------------------------- iSWAP command line
\* Lengths are in hundredths of a millimetre: the default step of 1.0 mm is
\* 100, the precision step of 0.1 mm is 10, the limit of 99.9 mm is 9990.
PrecisionStep == 10

\* STAR.RotationDriveOrientation and STAR.WristOrientation, in the order of
\* the lists that the two rotate methods walk
RotationDriveOrientations == <<"LEFT", "FRONT", "RIGHT">>

WristOrientations == <<"REVERSE", "LEFT", "STRAIGHT", "RIGHT">>

\* orientations.index(o), counted from 1
IndexOf(orientations, o) == CHOOSE i \in 1 .. Len(orientations) : orientations[i] = o

CliAxes == {"x", "y", "z"}

\* last_action: ("move", axis, distance) or ("rotate", drive, direction); the
\* field that the kind of action does not use is 0 or ""
MoveAction(axis, distance) ==
  [type |-> "move", axis_or_arm |-> axis, value |-> distance, direction |-> ""]

RotateAction(arm, direction) ==
  [type |-> "rotate", axis_or_arm |-> arm, value |-> 0, direction |-> direction]

\* A command sent to the STAR backend (ok: the command returned; otherwise it
\* raised)
MoveCmd(axis, distance, ok) ==
  [cmd |-> "move_iswap_" \o axis \o "_relative", distance |-> distance,
   orientation |-> "", ok |-> ok]

\* A command sent for the key being processed raised: the exception leaves
\* process_key, run and asyncio.run
Raised(c) == \E i \in 1 .. Len(c.star.cmds) : ~c.star.cmds[i].ok

\* CLI.__init__. star is the STAR backend as the program sees it: reading is
\* what request_iswap_position returned, moved the sum per axis of the
\* relative moves that returned, cmds the commands sent while the last key
\* was processed
NewCLI ==
  [step_size |-> 100,
   precision_mode |-> FALSE,
   position |-> [a \in CliAxes |-> 0],
   wrist_rotation |-> "RIGHT",
   rotation_drive_orientation |-> "RIGHT",
   input_buffer |-> <<>>,
   last_action |-> None,
   reversing |-> FALSE,
   _previous_step_size |-> 100,
   star |-> [reading |-> [a \in CliAxes |-> 0],
            moved |-> [a \in CliAxes |-> 0],
            cmds |-> <<>>]]

\* move_arm_x, move_arm_y, move_arm_z: the relative move is commanded, and
\* when it has returned the move is recorded unless a reverse is under way
move_arm(c, axis, distance, ok) ==
  LET sent == [c EXCEPT !.star.cmds = Append(@, MoveCmd(axis, distance, ok)),
                        !.star.moved[axis] = IF ok THEN @ + distance ELSE @]
  IN  IF ok /\ ~c.reversing
        THEN [sent EXCEPT !.last_action = Some(MoveAction(axis, distance))]
        ELSE sent

\* variant: precision mode remembers the step size at every toggle
toggle_precision_mode_SavesAlways(c) ==
  LET on == ~c.precision_mode
  IN  [c EXCEPT !._previous_step_size = c.step_size,
                !.precision_mode = on,
                !.step_size = IF on THEN PrecisionStep ELSE c.step_size]

\* toggle_precision_mode
toggle_precision_mode(c) ==
  LET saved == IF ~c.precision_mode THEN c.step_size ELSE c._previous_step_size
      on == ~c.precision_mode
  IN  [c EXCEPT !._previous_step_size = saved,
                !.precision_mode = on,
                !.step_size = IF on THEN PrecisionStep ELSE saved]

\* One of the two rotate methods: the rotation is recorded first, whether a
\* reverse is under way or not; at the end of the list nothing is commanded;
\* otherwise the field takes the next orientation and the drive is commanded
\* to it
rotate(c, arm, orientations, from, cmd, direction, ok) ==
  LET at == IndexOf(orientations, from)
      noted == [c EXCEPT !.last_action = Some(RotateAction(arm, direction))]
      to == IF direction = "counter-clockwise" THEN at - 1 ELSE at + 1
  IN  IF \/ direction = "counter-clockwise" /\ at = 1
         \/ direction = "clockwise" /\ at = Len(orientations)
        THEN noted
        ELSE LET turned == IF arm = "rotation"
                             THEN [noted EXCEPT !.rotation_drive_orientation =
                                                  orientations[to]]
                             ELSE [noted EXCEPT !.wrist_rotation = orientations[to]]
             IN  [turned EXCEPT !.star.cmds =
                                  Append(@, [cmd |-> cmd, distance |-> 0,
                                             orientation |-> orientations[to],
                                             ok |-> ok])]

rotate_rotation_drive(c, direction, ok) ==
  rotate(c, "rotation", RotationDriveOrientations, c.rotation_drive_orientation,
         "rotate_iswap_rotation_drive", direction, ok)

rotate_wrist_drive(c, direction, ok) ==
  rotate(c, "wrist", WristOrientations, c.wrist_rotation, "rotate_iswap_wrist",
         direction, ok)

\* adjust_step_size: max(0.1, step_size + increment)
adjust_step_size(c, increment) ==
  [c EXCEPT !.step_size = IF c.step_size + increment < PrecisionStep
                            THEN PrecisionStep
                            ELSE c.step_size + increment]

Opposite(direction) ==
  IF direction = "counter-clockwise" THEN "clockwise" ELSE "counter-clockwise"

\* apply_reverse_last_action: reversing is set and stays set when the method
\* returns
apply_reverse_last_action(c, ok) ==
  IF c.last_action = None
    THEN c
    ELSE LET action == c.last_action[1]
             r == [c EXCEPT !.reversing = TRUE]
         IN  IF action.type = "move"
               THEN move_arm(r, action.axis_or_arm, 0 - action.value, ok)
               ELSE IF action.axis_or_arm = "rotation"
                      THEN rotate_rotation_drive(r, Opposite(action.direction), ok)
                      ELSE rotate_wrist_drive(r, Opposite(action.direction), ok)

\* repeat_last_action
repeat_last_action(c, ok) ==
  IF c.last_action = None
    THEN c
    ELSE LET action == c.last_action[1]
         IN  IF action.type = "move"
               THEN move_arm(c, action.axis_or_arm, action.value, ok)
               ELSE IF action.axis_or_arm = "rotation"
                      THEN rotate_rotation_drive(c, action.direction, ok)
                      ELSE rotate_wrist_drive(c, action.direction, ok)

\* The keys of process_key. Backspace stands for KEY_BACKSPACE and Ctrl+Z,
\* Enter for "\n" and ".", and "h" for every key that process_key does not
\* name.
DigitKeys == {"0", "3"}

MoveKeys == {"w", "a", "s", "d", "j", "k"}

Keys ==
  {"BACKSPACE", "r", "t", "f", "g", "+", "-", "p", "ENTER", "q", "c", "h"}
    \cup DigitKeys \cup MoveKeys

\* float(input_buffer), in millimetres
RECURSIVE float(_)
float(buffer) ==
  IF buffer = <<>> THEN 0
  ELSE 10 * float(SubSeq(buffer, 1, Len(buffer) - 1)) + buffer[Len(buffer)]

KeyAxis(k) == IF k \in {"w", "s"} THEN "y" ELSE IF k \in {"a", "d"} THEN "x" ELSE "z"

\* the distance of a movement key: the typed number or the step size, with
\* the sign of the key, limited to +/- 99.9 mm
KeyDistance(c, k) ==
  LET multiplier == IF k \in {"w", "d", "k"} THEN 1 ELSE 0 - 1
      distance == IF c.input_buffer # <<>>
                    THEN float(c.input_buffer) * 100 * multiplier
                    ELSE c.step_size * multiplier
  IN  IF distance > 9990 THEN 9990
      ELSE IF distance < 0 - 9990 THEN 0 - 9990
      ELSE distance

\* What the position lines of display_dynamic_status show: the field with
\* one decimal
Shown(c, a) == Round1(c.position[a])

\* State in phase ph, the widgets of TeachingTools being as their constructors
\* and build_ui() leave them, with _location at loc: "loaded" is the setup
\* screen with a layout file loaded and the Setup button shown, "built" the
\* state after Window._load_locator with start() still to run
InitAt(ph, loc) ==
  /\ phase = ph
  /\ lh = 1
  /\ setup_button = (ph = "loaded")
  /\ file_picker = (ph = "loaded")
  /\ setup_threads = <<>>
  /\ setup_finished_signal = <<>>
  /\ setup_alert = FALSE
  /\ index = 0
  /\ tabEnabled = [t \in Tabs |-> TRUE]
  /\ prepared = FALSE
  /\ invoked = FALSE
  /\ channel = NoArgs
  /\ _location = loc
  /\ _d = DefaultD
  /\ controller_disabled = TRUE
  /\ padEnabled = FALSE
  /\ displayEnabled = FALSE
  /\ displayValue = NoArgs
  /\ tip_racks = [r \in TipRackNames |-> FALSE]
  /\ rackButtons = [r \in TipRackNames |-> TRUE]
  /\ unlocatedEnabled = TRUE
  /\ teachButtons = [r \in UnlocatedNames |-> TRUE]
  /\ resLocation = [r \in UnlocatedNames |-> None]
  /\ last = Idle
  /\ base = None
  /\ jogSum = <<0, 0, 0>>
  /\ jogsOk = TRUE
  /\ nJogs = 0
  /\ nSets = 0
  /\ nFaults = 0
  /\ pt_location = None
  /\ pt_d = DefaultD
  /\ pt_controller_disabled = TRUE
  /\ pt_padEnabled = FALSE
  /\ pt_displayEnabled = FALSE
  /\ pt_displayValue = NoArgs
  /\ picked_up_plate = None
  /\ points = <<>>
  /\ destination = NoRef
  /\ python_code = [call |-> "# add points or release plate to generate code",
                    to |-> [word |-> "", name |-> "", at |-> None],
                    intermediate_locations |-> None]
  /\ buildPathEnabled = FALSE
  /\ platesBoxEnabled = TRUE
  /\ carrierSitesBoxEnabled = FALSE
  /\ siteShown = [s \in SiteNames |-> \A p \in PlateNames : PlateSite(p) # s]
  /\ gripped = None
  /\ ptLast = PtIdle
  /\ pointsAdded = <<>>
  /\ pointRemoved = FALSE
  /\ nPathJogs = 0
  /\ padPc = "read"
  /\ signals = <<>>
  /\ nEmits = 0
  /\ requests = <<>>
  /\ alerts = <<>>
  /\ cliPc = "constructed"
  /\ cli = NewCLI
  /\ key = ""
  /\ nKeys = 0
  /\ keyed = None
  /\ stepWhenOn = 0

\* State after construction and build_ui(), with start() still to run, when
\* the constructor of the location editor leaves _location at loc
InitWith(loc) == InitAt("built", loc)

\* State after Window._load_locator has constructed TeachingTools and run
\* build_ui(); start() is still to run.
Init == InitWith(None)

\* ------------------------------------------------------------ set_location
\* variant: the first setting accepts omitted axes and reads them as 0
LocationEditor_set_location_NoCheck(l, args) ==
  [raised |-> FALSE,
   loc |-> [a \in Axes |-> IF args[a] # None THEN args[a][1]
                           ELSE IF l = None THEN 0 ELSE l[a]]]

\* LocationEditor.set_location: latch the given axes into _location.
\* Result: raised (ValueError) and the new _location.
LocationEditor_set_location(l, args) ==
  IF l = None
  THEN IF \E a \in Axes : args[a] = None
       THEN [raised |-> TRUE, loc |-> l]
       ELSE [raised |-> FALSE, loc |-> <<args[1][1], args[2][1], args[3][1]>>]
  ELSE [raised |-> FALSE,
        loc |-> [a \in Axes |-> IF args[a] # None THEN args[a][1] ELSE l[a]]]

\* ResourceLocatorWidget.set_location(x, y, z) from _location l, display values
\* dv and channel position ch.  fail is the axis whose backend move raises if
\* it is commanded (0: the backend raises for none).
set_location(l, dv, ch, args, fail) ==
  LET sup       == LocationEditor_set_location(l, args)
      Issued(a) == args[a] # None /\ \A b \in Axes : (b < a /\ args[b] # None) => b # fail
      Moved(a)  == Issued(a) /\ a # fail
      Cmd(a)    == IF Issued(a)
                   THEN <<[axis |-> a, value |-> args[a][1], ok |-> a # fail]>>
                   ELSE <<>>
  IN  IF sup.raised
      THEN [loc |-> l, disp |-> dv, chan |-> ch, cmds |-> <<>>,
            alert |-> FALSE, raised |-> "ValueError", ran |-> FALSE]
      ELSE [loc    |-> sup.loc,
            disp   |-> [a \in Axes |-> IF Moved(a) THEN args[a] ELSE dv[a]],
            chan   |-> [a \in Axes |-> IF Moved(a) THEN args[a] ELSE ch[a]],
            cmds   |-> Cmd(1) \o Cmd(2) \o Cmd(3),
            alert  |-> \E a \in Axes : Issued(a) /\ a = fail,
            raised |-> "",
            ran    |-> TRUE]

\* What the run is after an exception has left a Qt slot: the event loop goes
\* on (an exception hook is installed), or qFatal() has aborted the program.
ExceptionLeavesSlot == phase' \in {"running", "aborted"}

\* controller_disabled after set_location: the finally clause clears it,
\* unless LocationEditor.set_location raised before the try block.
ControllerAfter(res, cd) == IF res.ran THEN FALSE ELSE cd

\* history: a handler in which n backend calls raised
Faults(n) ==
  /\ nFaults + n <= MaxFaults
  /\ nFaults' = nFaults + n

\* the backend can raise only in a call that is made
FailOccurs(res, fail) == fail = 0 \/ res.alert

FaultCount(res) == IF res.alert THEN 1 ELSE 0

\* history: the signed step a relative jog is specified to apply: left/right
\* are -/+ step on x, forward/back are -/+ step on y, down/up are -/+ step on z
SignedStep(dir, d) ==
  IF dir = "left" THEN <<0 - d, 0, 0>>
  ELSE IF dir = "right" THEN <<d, 0, 0>>
  ELSE IF dir = "forward" THEN <<0, 0 - d, 0>>
  ELSE IF dir = "back" THEN <<0, d, 0>>
  ELSE IF dir = "down" THEN <<0, 0, 0 - d>>
  ELSE <<0, 0, d>>

\* ------------------------------------------------------------------ jogging
Directions == {"left", "right", "back", "forward", "down", "up"}

\* the axis move_<dir> changes
MoveAxis(dir) ==
  IF dir \in {"left", "right"} THEN 1
  ELSE IF dir \in {"back", "forward"} THEN 2 ELSE 3

\* variant: move_back subtracts the step and move_forward adds it
MoveDelta_BackSubtracts(dir, d) == IF dir \in {"right", "forward", "up"} THEN d ELSE 0 - d

\* the signed step move_<dir> adds to that axis
MoveDelta(dir, d) == IF dir \in {"right", "back", "up"} THEN d ELSE 0 - d

\* arguments move_<dir> passes to set_location
MoveArgs(dir, l, d) ==
  [a \in Axes |-> IF a = MoveAxis(dir) THEN Some(l[a] + MoveDelta(dir, d)) ELSE None]

\* move_left .. move_up.  With _location unset, self._location.x raises
\* AttributeError before set_location is called.
Move(dir, fail, op) ==
  /\ IF _location = None
     THEN /\ last' = [Idle EXCEPT !.op = op, !.who = dir, !.raised = "AttributeError"]
          /\ fail = 0
          /\ UNCHANGED <<_location, displayValue, channel, controller_disabled,
                         jogSum, jogsOk, nFaults>>
     ELSE LET args == MoveArgs(dir, _location, _d)
              res  == set_location(_location, displayValue, channel, args, fail)
          IN  /\ FailOccurs(res, fail)
              /\ Faults(FaultCount(res))
              /\ _location' = res.loc
              /\ displayValue' = res.disp
              /\ channel' = res.chan
              /\ controller_disabled' = ControllerAfter(res, controller_disabled)
              /\ last' = [op |-> op, who |-> dir, args |-> args, pre |-> _location,
                          cmds |-> res.cmds, ok |-> ~res.alert, alert |-> res.alert,
                          raised |-> res.raised]
              /\ jogSum' = CoordAdd(jogSum, SignedStep(dir, _d))
              /\ jogsOk' = (jogsOk /\ ~res.alert)
  /\ nJogs' = nJogs + 1
  /\ UNCHANGED <<phase, index, tabEnabled, prepared, invoked, _d, padEnabled, displayEnabled,
                 tip_racks, rackButtons, unlocatedEnabled, teachButtons, resLocation,
                 base, nSets, ptVars, padVars, setupVars, cliVars>>

\* A click on a button of the direction pad
PadJog(dir, fail) ==
  /\ phase = "running" /\ index = 0
  /\ padEnabled
  /\ nJogs < MaxJogs
  /\ Move(dir, fail, "jog")

\* LocationEditor.keyPressEvent, reached through Window and TeachingTools
KeyJog(dir, fail) ==
  /\ phase = "running" /\ index = 0
  /\ ~controller_disabled
  /\ nJogs < MaxJogs
  /\ Move(dir, fail, "jog")

\* LocationEditor.set_d
set_d(d) ==
  /\ _d' = d
  /\ UNCHANGED <<last, phase, index, tabEnabled, prepared, invoked, channel, _location,
                 controller_disabled, padEnabled, displayEnabled, displayValue,
                 tip_racks, rackButtons, unlocatedEnabled, teachButtons, resLocation,
                 base, jogSum, jogsOk, nJogs, nSets, nFaults, ptVars, padVars, setupVars, cliVars>>


\* a radio button of the pad: set_d_callback_wrapper
SetD(d) ==
  /\ phase = "running" /\ index = 0
  /\ padEnabled
  /\ d \in StepOptions
  /\ set_d(d)

\* ---------------------------------------------------------------- start-up
\* ResourceLocatorWidget.start: prepare_for_manual_channel_operation, whose
\* failure is reported and otherwise ignored.
LocatorStart(ok) ==
  /\ prepared' = (prepared \/ ok)
  /\ invoked' = TRUE
  /\ Faults(IF ok THEN 0 ELSE 1)

\* TeachingTools.start(), the last statement of Window._load_locator
Start(ok) ==
  /\ phase = "built"
  /\ phase' = "running"
  /\ index' = 0
  /\ LocatorStart(ok)
  /\ UNCHANGED <<last, tabEnabled, channel, _location, _d, controller_disabled, padEnabled,
                 displayEnabled, displayValue, tip_racks, rackButtons, unlocatedEnabled,
                 teachButtons, resLocation, base, jogSum, jogsOk, nJogs, nSets, ptVars,
                 padVars, setupVars, cliVars>>

\* TeachingTools._tab_changed: the operator selects another (enabled) tab
TabChanged(i, ok) ==
  /\ phase = "running"
  /\ i # index
  /\ tabEnabled[i]
  /\ index' = i
  /\ IF i = 0
     THEN LocatorStart(ok)
     ELSE /\ ok
          /\ UNCHANGED <<prepared, invoked, nFaults>>
  /\ UNCHANGED <<last, phase, tabEnabled, channel, _location, _d, controller_disabled,
                 padEnabled, displayEnabled, displayValue, tip_racks, rackButtons,
                 unlocatedEnabled, teachButtons, resLocation, base, jogSum, jogsOk,
                 nJogs, nSets, ptVars, padVars, setupVars, cliVars>>

\* variant: lock_tab leaves every tab enabled
lock_tab_AllEnabled(tab) == [i \in Tabs |-> TRUE]

\* TeachingTools.lock_tab(tab)
lock_tab(tab) == [i \in Tabs |-> i = tab]

\* TeachingTools.enable_all_tabs()
enable_all_tabs == [i \in Tabs |-> TRUE]

\* ---------------------------------------------------------------- tip racks
\* TipRacksWidget.start_pick_up_tip_a1
start_pick_up_tip_a1(buttons) == [b \in DOMAIN buttons |-> FALSE]

\* TipRacksWidget.pick_up_tip_failed
pick_up_tip_failed(buttons) == [b \in DOMAIN buttons |-> TRUE]

\* variant: every rack's button is enabled after a pickup
pick_up_tip_a1_succeeded_AllEnabled(buttons, rack) == [b \in DOMAIN buttons |-> TRUE]

\* TipRacksWidget.pick_up_tip_a1_succeeded: the button of the rack
pick_up_tip_a1_succeeded(buttons, rack) == [buttons EXCEPT ![rack] = TRUE]

\* TipRacksWidget.start_drop_tip_a1
start_drop_tip_a1(buttons) == [b \in DOMAIN buttons |-> FALSE]

\* self.tip_racks_widget.drop_tip_failed(): TipRacksWidget has no such
\* method (it has start_drop_tip_failed(tip_rack)), so the call raises
\* AttributeError inside the except clause and no button is touched.
drop_tip_failed(buttons, rack) == buttons

\* variant: only the button of the rack is enabled after a drop
drop_tip_a1_succeeded_OnlyRack(buttons, rack) == [buttons EXCEPT ![rack] = TRUE]

\* TipRacksWidget.drop_tip_a1_succeeded: the buttons
drop_tip_a1_succeeded(buttons, rack) == [b \in DOMAIN buttons |-> TRUE]

\* arguments of the set_location that follows a pickup or a drop
TipStation(rack) ==
  LET c == TipSpotCenter(rack)
  IN  <<Some(Round1(c[1])), Some(Round1(c[2])),
        Some(Round1(c[3] + TotalTipLength(rack) + 1000))>>

\* ResourceLocatorWidget.pick_up_tip_a1, reached from the rack's button while
\* tip_racks has no tip for the rack.  ok: lh.pick_up_tips did not raise.
PickUpTip(rack, ok, fail) ==
  /\ phase = "running" /\ index = 0
  /\ rackButtons[rack]
  /\ ~tip_racks[rack]
  /\ IF ~ok
     THEN /\ rackButtons' = pick_up_tip_failed(start_pick_up_tip_a1(rackButtons))
          /\ last' = [Idle EXCEPT !.op = "pick_up_tip", !.who = rack,
                                  !.pre = _location, !.ok = FALSE, !.alert = TRUE]
          /\ fail = 0
          /\ Faults(1)
          /\ UNCHANGED <<tip_racks, _location, displayValue, channel,
                         controller_disabled, padEnabled, displayEnabled,
                         unlocatedEnabled, tabEnabled, base, jogSum, jogsOk>>
     ELSE LET res == set_location(_location, displayValue, channel,
                                  TipStation(rack), fail)
          IN  /\ FailOccurs(res, fail)
              /\ Faults(FaultCount(res))
              /\ rackButtons' =
                   pick_up_tip_a1_succeeded(start_pick_up_tip_a1(rackButtons), rack)
              /\ tip_racks' = [tip_racks EXCEPT ![rack] = TRUE]
              /\ _location' = res.loc
              /\ displayValue' = res.disp
              /\ channel' = res.chan
              /\ padEnabled' = TRUE
              /\ displayEnabled' = TRUE
              /\ unlocatedEnabled' = TRUE
              /\ controller_disabled' = FALSE
              /\ tabEnabled' = lock_tab(0)
              /\ last' = [op |-> "pick_up_tip", who |-> rack, args |-> TipStation(rack),
                          pre |-> _location, cmds |-> res.cmds, ok |-> TRUE,
                          alert |-> res.alert, raised |-> res.raised]
              /\ base' = res.loc
              /\ jogSum' = <<0, 0, 0>>
              /\ jogsOk' = TRUE
  /\ UNCHANGED <<phase, index, prepared, invoked, _d, teachButtons, resLocation, nJogs, nSets,
                 ptVars, padVars, setupVars, cliVars>>

\* ResourceLocatorWidget.drop_tip_a1, reached from the rack's button while
\* tip_racks has a tip for the rack.  ok: lh.drop_tips did not raise.
DropTip(rack, ok, fail) ==
  /\ phase = "running" /\ index = 0
  /\ rackButtons[rack]
  /\ tip_racks[rack]
  /\ IF ~ok
     THEN /\ rackButtons' = drop_tip_failed(start_drop_tip_a1(rackButtons), rack)
          /\ last' = [Idle EXCEPT !.op = "drop_tip", !.who = rack,
                                  !.pre = _location, !.ok = FALSE,
                                  !.raised = "AttributeError"]
          /\ ExceptionLeavesSlot
          /\ fail = 0
          /\ Faults(1)
          /\ UNCHANGED <<tip_racks, _location, displayValue, channel,
                         controller_disabled, padEnabled, displayEnabled,
                         unlocatedEnabled, tabEnabled, base, jogSum, jogsOk>>
     ELSE LET res == set_location(_location, displayValue, channel,
                                  TipStation(rack), fail)
          IN  /\ FailOccurs(res, fail)
              /\ Faults(FaultCount(res))
              /\ rackButtons' =
                   drop_tip_a1_succeeded(start_drop_tip_a1(rackButtons), rack)
              /\ tip_racks' = [tip_racks EXCEPT ![rack] = FALSE]
              /\ _location' = res.loc
              /\ displayValue' = res.disp
              /\ channel' = res.chan
              /\ padEnabled' = FALSE
              /\ displayEnabled' = FALSE
              /\ unlocatedEnabled' = FALSE
              /\ controller_disabled' = TRUE
              /\ tabEnabled' = enable_all_tabs
              /\ last' = [op |-> "drop_tip", who |-> rack, args |-> TipStation(rack),
                          pre |-> _location, cmds |-> res.cmds, ok |-> TRUE,
                          alert |-> res.alert, raised |-> res.raised]
              /\ UNCHANGED phase
              /\ base' = res.loc
              /\ jogSum' = <<0, 0, 0>>
              /\ jogsOk' = TRUE
  /\ UNCHANGED <<index, prepared, invoked, _d, teachButtons, resLocation, nJogs, nSets,
                 ptVars, padVars, setupVars, cliVars>>

\* ----------------------------------------------------------------- teaching
\* Resource.get_absolute_location(): the sum of the locations up to the deck;
\* None stands for the exception raised when a location on the way is None.
RECURSIVE get_absolute_location(_, _)
get_absolute_location(r, rl) ==
  LET own == IF r \in UnlocatedNames THEN rl[r] ELSE FixedLocation(r)
  IN  IF r = "deck" THEN own
      ELSE LET par == get_absolute_location(ParentOf(r), rl)
           IN  IF own = None \/ par = None THEN None ELSE CoordAdd(par, own)

\* variant: the center of A1 is not subtracted
PlateOffset_NoCenter(T, C, M, P) == CoordSub(CoordSub(T, C), P)

\* resource_here, Plate branch: location from taught point T, A1 location C,
\* A1 center M and the parent's absolute location P
PlateOffset(T, C, M, P) == CoordSub(CoordSub(CoordSub(T, C), M), P)

\* variant: the height of the resource is not subtracted
BoxOffset_NoHeight(T, H, P) == CoordSub(T, P)

\* variant: the parent's absolute location is not subtracted
BoxOffset_NoParent(T, H, P) == CoordSub(T, <<0, 0, H>>)

\* resource_here, else branch: location from taught point T, height H and
\* the parent's absolute location P
BoxOffset(T, H, P) == CoordSub(CoordSub(T, <<0, 0, H>>), P)

\* variant: the button of the taught resource is left enabled
ButtonsAfterTeach_LeftEnabled(buttons, r) == buttons

\* resource_here: self.buttons[i].setEnabled(False)
ButtonsAfterTeach(buttons, r) == [buttons EXCEPT ![r] = FALSE]

\* A button of a disabled widget is disabled; a button disabled with
\* setEnabled(False) stays disabled when its widget is enabled again.
TeachButtonEnabled(r) == unlocatedEnabled /\ teachButtons[r]

\* UnlocatedResourcesWidget.build_ui.resource_here for resource r
Teach(r) ==
  LET T == _location
      P == get_absolute_location(ParentOf(r), resLocation)
  IN  /\ phase = "running" /\ index = 0
      /\ TeachButtonEnabled(r)
      /\ IF T = None \/ P = None
         THEN /\ last' = [Idle EXCEPT !.op = "teach", !.who = r, !.pre = T,
                                      !.raised = IF T = None THEN "TypeError"
                                                 ELSE "AssertionError"]
              /\ ExceptionLeavesSlot
              /\ UNCHANGED <<resLocation, teachButtons>>
         ELSE /\ resLocation' =
                   [resLocation EXCEPT ![r] =
                      IF IsPlate(r)
                      THEN PlateOffset(T, A1Location(r), A1Center(r), P)
                      ELSE BoxOffset(T, SizeZ(r), P)]
              /\ teachButtons' = ButtonsAfterTeach(teachButtons, r)
              /\ last' = [Idle EXCEPT !.op = "teach", !.who = r, !.pre = T]
              /\ UNCHANGED phase
      /\ UNCHANGED <<index, tabEnabled, prepared, invoked, channel, _location, _d,
                     controller_disabled, padEnabled, displayEnabled, displayValue,
                     tip_racks, rackButtons, unlocatedEnabled, base, jogSum, jogsOk,
                     nJogs, nSets, nFaults, ptVars, padVars, setupVars, cliVars>>

\* ------------------------------------------------------------- path teacher
\* the state of the Resource Locator tab, which no Path Teacher handler touches
locatorVars == <<prepared, invoked, channel, _location, _d, controller_disabled, padEnabled,
                 displayEnabled, displayValue, tip_racks, rackButtons,
                 unlocatedEnabled, teachButtons, resLocation, last, base, jogSum,
                 jogsOk, nJogs, nSets>>

\* the value read through a reference when the path teacher's Coordinate
\* object has value l
Deref(ref, l) == IF ref.kind = "object" THEN l ELSE ref.at

\* a part of the generated text: a word, with the name or the value it holds
Text(word, name, at) == [word |-> word, name |-> name, at |-> at]

\* repr(coordinate) of the Coordinate with value v
CoordinateRepr(v) == Text("Coordinate", "", v)

\* variant: without waypoints the placeholder comment is returned, whether or
\* not a destination is set
write_python_code_EmptyIsPlaceholder(dest, pts, l) ==
  LET destination_string ==
        IF dest.kind = "none" THEN Text("<destination>", "", None)
        ELSE IF dest.kind = "site" THEN Text("lh.deck.get_resource", dest.name, None)
        ELSE CoordinateRepr(Deref(dest, l))
  IN  IF Len(pts) = 0
      THEN [call |-> "# add points or release plate to generate code",
            to |-> Text("", "", None), intermediate_locations |-> None]
      ELSE [call |-> "lh.move_plate", to |-> destination_string,
            intermediate_locations |->
              Some([i \in 1 .. Len(pts) |-> CoordinateRepr(Deref(pts[i], l))])]

\* BuildPathEditorWidget.write_python_code when the path teacher's Coordinate
\* object has value l.  The text is kept as its parts: the comment or the
\* call, the to= argument and the intermediate_locations= argument (None
\* when the call has none).
write_python_code(dest, pts, l) ==
  LET destination_string ==
        IF dest.kind = "none" THEN Text("<destination>", "", None)
        ELSE IF dest.kind = "site" THEN Text("lh.deck.get_resource", dest.name, None)
        ELSE CoordinateRepr(Deref(dest, l))
  IN  IF Len(pts) = 0
      THEN IF dest.kind = "none"
           THEN [call |-> "# add points or release plate to generate code",
                 to |-> Text("", "", None), intermediate_locations |-> None]
           ELSE [call |-> "lh.move_plate", to |-> destination_string,
                 intermediate_locations |-> None]
      ELSE [call |-> "lh.move_plate", to |-> destination_string,
            intermediate_locations |->
              Some([i \in 1 .. Len(pts) |-> CoordinateRepr(Deref(pts[i], l))])]

\* PathTeacherWidget.set_location(x, y, z) from _location l and display values
\* dv while held is picked_up_plate.  moveOk: move_picked_up_resource returns.
PathTeacher_set_location(l, dv, held, args, moveOk) ==
  LET sup == LocationEditor_set_location(l, args)
  IN  IF held = None
      THEN [loc |-> l, disp |-> dv, cmds |-> <<>>, alert |-> FALSE,
            raised |-> "AssertionError", ran |-> FALSE]
      ELSE IF sup.raised
      THEN [loc |-> l, disp |-> dv, cmds |-> <<>>, alert |-> FALSE,
            raised |-> "ValueError", ran |-> FALSE]
      ELSE [loc    |-> sup.loc,
            disp   |-> IF moveOk
                       THEN [a \in Axes |-> IF args[a] # None THEN args[a] ELSE dv[a]]
                       ELSE dv,
            cmds   |-> <<[cmd |-> "move_picked_up_resource", plate |-> held[1],
                          at |-> sup.loc, ok |-> moveOk]>>,
            alert  |-> ~moveOk,
            raised |-> "",
            ran    |-> TRUE]

\* arguments of the set_location that follows a plate pickup
PlateStation(plate) ==
  LET loc == PlateAbsolute(plate)
  IN  <<Some(Round1(loc[1])), Some(Round1(loc[2])),
        Some(Round1(loc[3] + PlateSizeZ(plate) + PICKUP_DISTANCE_FROM_TOP))>>

\* variant: the plates box stays enabled while a plate is held
plate_was_picked_up_PlatesEnabled(shown, plate) ==
  [shown |-> [s \in SiteNames |-> IF s = PlateSite(plate) THEN TRUE ELSE shown[s]],
   carrier_sites_box |-> TRUE,
   plates_box |-> TRUE]

\* PlatesWidget.plate_was_picked_up: the rows of the carrier sites and the
\* enabled flags of the two boxes
plate_was_picked_up(shown, plate) ==
  [shown |-> [s \in SiteNames |-> IF s = PlateSite(plate) THEN TRUE ELSE shown[s]],
   carrier_sites_box |-> TRUE,
   plates_box |-> FALSE]

\* PlatesWidget.plate_was_put: the rows of the carrier sites and the enabled
\* flags of the two boxes; site is "" when the plate was put at a coordinate
plate_was_put(shown, plate, site) ==
  [shown |-> [s \in SiteNames |-> IF s = PlateSite(plate) THEN TRUE
                                    ELSE IF s = site THEN FALSE ELSE shown[s]],
   carrier_sites_box |-> FALSE,
   plates_box |-> TRUE]

\* variant: clear() resets the destination and keeps the waypoint list
clear_KeepsPoints(pts, dest) == [points |-> pts, destination |-> NoRef]

\* variant: clear() empties the waypoint list and keeps the destination
clear_KeepsDestination(pts, dest) == [points |-> <<>>, destination |-> dest]

\* BuildPathEditorWidget.clear
clear(pts, dest) == [points |-> <<>>, destination |-> NoRef]

\* PathTeacherWidget.pick_up_plate, reached from a button of the plates box.
\* ok: backend.pick_up_resource returned.
PickUpPlate(plate, ok, moveOk) ==
  /\ phase = "running" /\ index = 1
  /\ platesBoxEnabled
  /\ IF ~ok
     THEN /\ moveOk
          /\ Faults(1)
          /\ ptLast' = [PtIdle EXCEPT !.op = "pick_up_plate", !.who = plate,
                                      !.ok = FALSE, !.alert = TRUE, !.pre = pt_location,
                                      !.cmds = <<[cmd |-> "pick_up_resource",
                                                  plate |-> plate, at |-> None,
                                                  ok |-> FALSE]>>]
          /\ UNCHANGED <<tabEnabled, pt_location, pt_controller_disabled,
                         pt_padEnabled, pt_displayEnabled, pt_displayValue,
                         picked_up_plate, points, destination, python_code,
                         buildPathEnabled, platesBoxEnabled, carrierSitesBoxEnabled,
                         siteShown, gripped, pointsAdded, pointRemoved>>
     ELSE LET res == PathTeacher_set_location(pt_location, pt_displayValue,
                                              Some(plate), PlateStation(plate), moveOk)
              cl  == clear(points, destination)
              pw  == plate_was_picked_up(siteShown, plate)
          IN  /\ Faults(IF res.alert THEN 1 ELSE 0)
              /\ gripped' = Some(plate)
              /\ pt_controller_disabled' = FALSE
              /\ pt_padEnabled' = TRUE
              /\ pt_displayEnabled' = TRUE
              /\ buildPathEnabled' = TRUE
              /\ tabEnabled' = lock_tab(1)
              /\ picked_up_plate' = Some(plate)
              /\ pt_location' = res.loc
              /\ pt_displayValue' = res.disp
              /\ siteShown' = pw.shown
              /\ carrierSitesBoxEnabled' = pw.carrier_sites_box
              /\ platesBoxEnabled' = pw.plates_box
              /\ points' = cl.points
              /\ pointsAdded' = <<>>
              /\ pointRemoved' = FALSE
              /\ destination' = cl.destination
              /\ python_code' = write_python_code(cl.destination, cl.points, res.loc)
              /\ ptLast' = [PtIdle EXCEPT !.op = "pick_up_plate", !.who = plate,
                                          !.alert = res.alert, !.pre = pt_location,
                                          !.cmds = <<[cmd |-> "pick_up_resource",
                                                      plate |-> plate, at |-> None,
                                                      ok |-> TRUE]>> \o res.cmds]
  /\ UNCHANGED <<phase, index, pt_d, nPathJogs, locatorVars, padVars, setupVars, cliVars>>

\* What put_plate can be given: a carrier site (its "Put plate here" button)
\* or the object get_location() returns ("Add current point as DESTINATION")
PutTargets == {SiteRef(s) : s \in SiteNames} \cup {LocationObject}

\* arguments of the set_location that follows a release at location loc
ReleaseStation(loc) == <<Some(Round1(loc[1])), Some(Round1(loc[2])), Some(ReleaseZ)>>

\* BuildPathEditorWidget.set_destination(site or location): site is None for
\* a coordinate; a CarrierSite object is true
set_destination(site, location) == IF site.kind = "site" THEN site ELSE location

\* PathTeacherWidget.put_plate(site_or_location).  ok:
\* backend.release_picked_up_resource returned.
PutPlate(target, ok, moveOk) ==
  LET isSite   == target.kind = "site"
      site     == IF isSite THEN target ELSE NoRef
      location == IF isSite THEN ValueRef(SiteAbsolute(target.name)) ELSE target
      locv     == Deref(location, pt_location)
      release  == [cmd |-> "release_picked_up_resource", plate |-> picked_up_plate[1],
                   at |-> locv, ok |-> ok]
  IN  /\ phase = "running" /\ index = 1
      /\ IF isSite THEN carrierSitesBoxEnabled /\ siteShown[target.name]
                   ELSE buildPathEnabled
      /\ IF picked_up_plate = None
         THEN /\ ok /\ moveOk
              /\ ptLast' = [PtIdle EXCEPT !.op = "put_plate", !.site = site.name,
                                          !.pre = pt_location,
                                          !.raised = "AssertionError"]
              /\ ExceptionLeavesSlot
              /\ UNCHANGED <<nFaults, tabEnabled, pt_location, pt_controller_disabled,
                             pt_padEnabled, pt_displayEnabled, pt_displayValue,
                             picked_up_plate, destination, python_code,
                             buildPathEnabled, platesBoxEnabled,
                             carrierSitesBoxEnabled, siteShown, gripped>>
         ELSE IF ~ok
         THEN /\ moveOk
              /\ Faults(1)
              /\ ptLast' = [PtIdle EXCEPT !.op = "put_plate", !.who = picked_up_plate[1],
                                          !.site = site.name, !.ok = FALSE,
                                          !.alert = TRUE, !.raised = "Exception",
                                          !.pre = pt_location, !.target = locv,
                                          !.cmds = <<release>>]
              /\ ExceptionLeavesSlot
              /\ UNCHANGED <<tabEnabled, pt_location, pt_controller_disabled,
                             pt_padEnabled, pt_displayEnabled, pt_displayValue,
                             picked_up_plate, destination, python_code,
                             buildPathEnabled, platesBoxEnabled,
                             carrierSitesBoxEnabled, siteShown, gripped>>
         ELSE LET res == PathTeacher_set_location(pt_location, pt_displayValue,
                                                  picked_up_plate,
                                                  ReleaseStation(locv), moveOk)
                  pw  == plate_was_put(siteShown, picked_up_plate[1], site.name)
              IN  /\ Faults(IF res.alert THEN 1 ELSE 0)
                  /\ gripped' = None
                  /\ pt_controller_disabled' = ~res.ran
                  /\ pt_padEnabled' = FALSE
                  /\ pt_displayEnabled' = FALSE
                  /\ buildPathEnabled' = FALSE
                  /\ tabEnabled' = enable_all_tabs
                  /\ siteShown' = pw.shown
                  /\ platesBoxEnabled' = pw.plates_box
                  /\ carrierSitesBoxEnabled' = pw.carrier_sites_box
                  /\ destination' = set_destination(site, location)
                  /\ python_code' = write_python_code(set_destination(site, location),
                                                      points, pt_location)
                  /\ pt_location' = res.loc
                  /\ pt_displayValue' = res.disp
                  /\ picked_up_plate' = None
                  /\ ptLast' = [PtIdle EXCEPT !.op = "put_plate",
                                              !.who = picked_up_plate[1],
                                              !.site = site.name, !.alert = res.alert,
                                              !.pre = pt_location, !.target = locv,
                                              !.cmds = <<release>> \o res.cmds]
                  /\ UNCHANGED phase
      /\ pointRemoved' = (pointRemoved /\ picked_up_plate' # None)
      /\ UNCHANGED <<index, pt_d, points, pointsAdded, nPathJogs, locatorVars, padVars,
                     setupVars, cliVars>>

\* BuildPathEditorWidget.add_intermediate_point: appends what get_location()
\* returns, which is the object self._location itself
add_intermediate_point(pts) == Append(pts, LocationObject)

\* "Add current point as INTERMEDIATE"
AddIntermediate ==
  /\ phase = "running" /\ index = 1
  /\ buildPathEnabled
  /\ Len(points) < MaxPoints
  /\ points' = add_intermediate_point(points)
  /\ pointsAdded' = Append(pointsAdded, pt_location)
  /\ python_code' = write_python_code(destination, add_intermediate_point(points),
                                      pt_location)
  /\ UNCHANGED <<phase, index, tabEnabled, nFaults, pt_location, pt_d,
                 pt_controller_disabled, pt_padEnabled, pt_displayEnabled,
                 pt_displayValue, picked_up_plate, destination, buildPathEnabled,
                 platesBoxEnabled, carrierSitesBoxEnabled, siteShown, gripped,
                 ptLast, pointRemoved, nPathJogs, locatorVars, padVars, setupVars, cliVars>>

\* list.pop(i) for a valid row i (rows count from 0)
Pop(seq, i) == [k \in 1 .. Len(seq) - 1 |-> IF k <= i THEN seq[k] ELSE seq[k + 1]]

\* variant: no test of currentRow() against -1; list.pop(-1) removes the last
\* entry (and raises IndexError, leaving the list, when there is none)
remove_point_NoGuard(pts, row) ==
  IF row = 0 - 1
  THEN IF pts = <<>> THEN pts ELSE SubSeq(pts, 1, Len(pts) - 1)
  ELSE Pop(pts, row)

\* BuildPathEditorWidget.remove_point with points_list.currentRow() = row
remove_point(pts, row) == IF row = 0 - 1 THEN pts ELSE Pop(pts, row)

\* "Remove selected point": the button is enabled whether or not a plate is
\* held; the selected row is -1 (none) or a row of the list
RemovePoint(row) ==
  /\ phase = "running" /\ index = 1
  /\ row \in (0 - 1) .. (Len(points) - 1)
  /\ points' = remove_point(points, row)
  /\ pointsAdded' = remove_point(pointsAdded, row)
  /\ pointRemoved' = (pointRemoved \/ (picked_up_plate # None /\ row # 0 - 1))
  /\ python_code' = IF row = 0 - 1 THEN python_code
                    ELSE write_python_code(destination, remove_point(points, row),
                                           pt_location)
  /\ UNCHANGED <<phase, index, tabEnabled, nFaults, pt_location, pt_d,
                 pt_controller_disabled, pt_padEnabled, pt_displayEnabled,
                 pt_displayValue, picked_up_plate, destination, buildPathEnabled,
                 platesBoxEnabled, carrierSitesBoxEnabled, siteShown, gripped,
                 ptLast, nPathJogs, locatorVars, padVars, setupVars, cliVars>>

\* move_left .. move_up of the Path Teacher, called in a slot.  The pad and
\* the keyboard controller are enabled only after a pickup has set _location.
PathMove(dir, moveOk) ==
  LET args == MoveArgs(dir, pt_location, pt_d)
      res  == PathTeacher_set_location(pt_location, pt_displayValue, picked_up_plate,
                                       args, moveOk)
  IN  /\ pt_location # None
      /\ nPathJogs < MaxPathJogs
      /\ nPathJogs' = nPathJogs + 1
      /\ IF res.ran
         THEN /\ Faults(IF res.alert THEN 1 ELSE 0)
              /\ UNCHANGED phase
         ELSE /\ moveOk
              /\ ExceptionLeavesSlot
              /\ UNCHANGED nFaults
      /\ pt_location' = res.loc
      /\ pt_displayValue' = res.disp
      /\ pt_controller_disabled' = IF res.ran THEN FALSE ELSE pt_controller_disabled
      /\ ptLast' = [PtIdle EXCEPT !.op = "jog", !.who = dir, !.ok = res.ran /\ ~res.alert,
                                  !.alert = res.alert, !.raised = res.raised,
                                  !.pre = pt_location, !.cmds = res.cmds]
      /\ UNCHANGED <<index, tabEnabled, pt_d, pt_padEnabled, pt_displayEnabled,
                     picked_up_plate, points, destination, python_code, buildPathEnabled,
                     platesBoxEnabled, carrierSitesBoxEnabled, siteShown, gripped,
                     pointsAdded, pointRemoved, locatorVars, padVars, setupVars, cliVars>>

\* A click on a button of the direction pad of the Path Teacher
PathPadJog(dir, moveOk) ==
  /\ phase = "running" /\ index = 1
  /\ pt_padEnabled
  /\ PathMove(dir, moveOk)

\* LocationEditor.keyPressEvent of the Path Teacher
PathKeyJog(dir, moveOk) ==
  /\ phase = "running" /\ index = 1
  /\ ~pt_controller_disabled
  /\ PathMove(dir, moveOk)

\* a radio button of the pad of the Path Teacher
PathSetD(d) ==
  /\ phase = "running" /\ index = 1
  /\ pt_padEnabled
  /\ d \in StepOptions
  /\ pt_d' = d
  /\ UNCHANGED <<phase, index, tabEnabled, nFaults, pt_location,
                 pt_controller_disabled, pt_padEnabled, pt_displayEnabled,
                 pt_displayValue, picked_up_plate, points, destination, python_code,
                 buildPathEnabled, platesBoxEnabled, carrierSitesBoxEnabled,
                 siteShown, gripped, ptLast, pointsAdded, pointRemoved, nPathJogs,
                 locatorVars, padVars, setupVars, cliVars>>

\* ------------------------------------------------------------------ gamepad
\* Readings of the three stick axes in a run: get_analogR_x, get_analogR_y and
\* get_analogL_y are bytes; each axis is at rest or pushed half way
StickReadings == <<{0, 64}, {128, 192}, {128, 192}>>

\* base(x) of app.py: a byte read as a signed value
base_of(x) == IF 128 <= x /\ x <= 255 THEN x - 256 ELSE x

\* the deflection run() computes from the reading of an axis
Deflection(a, reading) == IF a = 1 THEN base_of(reading) ELSE reading - 128

\* dx = x / 128 * 50, dy = y / 128 * 50, dz = z / 128 * 25 (mm)
StickDelta(a, v) == IF a = 3 THEN (v * 2500) \div 128 ELSE (v * 5000) \div 128

\* -1, the flag for an omitted argument of set_location_signal
Flag == 0 - 100

\* set_location_signal_handler: if x == -1: x = None
FromFlag(v) == IF v = Flag THEN None ELSE Some(v)

\* TeachingTools.get_controller_disabled
get_controller_disabled == IF index = 0 THEN controller_disabled ELSE pt_controller_disabled

\* TeachingTools.get_location
get_location == IF index = 0 THEN _location ELSE pt_location

\* GamepadListener.set_location(x, y, z): the emission. x or -1: the flag
\* stands in for None and for 0
Emission(args) ==
  [a \in Axes |-> IF args[a] = None \/ args[a][1] = 0 THEN Flag ELSE args[a][1]]

\* GamepadListener.run, from the top of the loop to the test of
\* get_controller_disabled(), when the test lets the thread go on
GamepadRead ==
  /\ phase = "running"
  /\ padPc = "read"
  /\ ~get_controller_disabled
  /\ padPc' = "x"
  /\ UNCHANGED <<phase, index, tabEnabled, nFaults, signals, nEmits, alerts, requests,
                 locatorVars, ptVars, setupVars, cliVars>>

\* GamepadListener.run, the part for axis a with the given reading of the
\* stick: beyond the dead zone it emits the signal for the position read from
\* get_location(); with no location, .x raises AttributeError and ends the
\* thread.  A run has at most max emissions.
GamepadAxisUpTo(a, reading, max) ==
  LET v    == Deflection(a, reading)
      loc  == get_location
      args == [b \in Axes |-> IF b = a THEN Some(loc[a] + StickDelta(a, v)) ELSE None]
      next == IF a = 1 THEN "y" ELSE IF a = 2 THEN "z" ELSE "read"
  IN  /\ phase = "running"
      /\ padPc = (IF a = 1 THEN "x" ELSE IF a = 2 THEN "y" ELSE "z")
      /\ IF v > 10 \/ v < 0 - 10
         THEN IF loc = None
              THEN /\ padPc' = "dead"
                   /\ UNCHANGED <<signals, nEmits, requests>>
              ELSE /\ nEmits < max
                   /\ nEmits' = nEmits + 1
                   /\ signals' = Append(signals, Emission(args))
                   /\ requests' = Append(requests, args)
                   /\ padPc' = next
         ELSE /\ padPc' = next
              /\ UNCHANGED <<signals, nEmits, requests>>
      /\ UNCHANGED <<phase, index, tabEnabled, nFaults, alerts, locatorVars, ptVars,
                     setupVars, cliVars>>

\* variant: the gamepad thread writes the position itself instead of emitting
GamepadAxis_SetsDirectly(a, reading) ==
  LET v    == Deflection(a, reading)
      loc  == get_location
      next == IF a = 1 THEN "y" ELSE IF a = 2 THEN "z" ELSE "read"
  IN  /\ phase = "running"
      /\ padPc = (IF a = 1 THEN "x" ELSE IF a = 2 THEN "y" ELSE "z")
      /\ IF v > 10 \/ v < 0 - 10
         THEN IF loc = None
              THEN /\ padPc' = "dead"
                   /\ UNCHANGED <<_location, nEmits>>
              ELSE /\ nEmits < MaxPadSignals
                   /\ nEmits' = nEmits + 1
                   /\ _location' = [loc EXCEPT ![a] = loc[a] + StickDelta(a, v)]
                   /\ padPc' = next
         ELSE /\ padPc' = next
              /\ UNCHANGED <<_location, nEmits>>
      /\ UNCHANGED <<phase, index, tabEnabled, nFaults, signals, alerts, requests,
                     prepared, invoked, channel, _d, controller_disabled, padEnabled,
                     displayEnabled,
                     displayValue, tip_racks, rackButtons, unlocatedEnabled,
                     teachButtons, resLocation, last, base, jogSum, jogsOk, nJogs,
                     nSets, ptVars, setupVars, cliVars>>

\* GamepadListener.run for axis a in the runs of SpecPad
GamepadAxis(a, reading) == GamepadAxisUpTo(a, reading, MaxPadSignals)

\* GamepadListener.set_location called for axis a with the target v
GamepadListener_set_location(a, v) ==
  LET args == [b \in Axes |-> IF b = a THEN Some(v) ELSE None]
  IN  /\ phase = "running"
      /\ nEmits < MaxPadSignals
      /\ nEmits' = nEmits + 1
      /\ signals' = Append(signals, Emission(args))
      /\ requests' = Append(requests, args)
      /\ UNCHANGED <<phase, index, tabEnabled, nFaults, padPc, alerts, locatorVars,
                     ptVars, setupVars, cliVars>>

\* TeachingTools.set_location_signal_handler, the slot the main thread runs
\* for the oldest queued emission
set_location_signal_handler(fail, moveOk) ==
  LET sig  == Head(signals)
      args == [a \in Axes |-> FromFlag(sig[a])]
  IN  /\ phase = "running"
      /\ signals # <<>>
      /\ signals' = Tail(signals)
      /\ IF index = 0
         THEN LET res == set_location(_location, displayValue, channel, args, fail)
              IN  /\ moveOk
                  /\ FailOccurs(res, fail)
                  /\ Faults(FaultCount(res))
                  /\ _location' = res.loc
                  /\ displayValue' = res.disp
                  /\ channel' = res.chan
                  /\ controller_disabled' = ControllerAfter(res, controller_disabled)
                  /\ last' = [op |-> "gamepad", who |-> "", args |-> args,
                              pre |-> _location, cmds |-> res.cmds, ok |-> ~res.alert,
                              alert |-> res.alert, raised |-> res.raised]
                  /\ base' = res.loc
                  /\ jogSum' = <<0, 0, 0>>
                  /\ jogsOk' = TRUE
                  /\ IF res.raised # "" THEN ExceptionLeavesSlot ELSE UNCHANGED phase
                  /\ UNCHANGED <<prepared, invoked, _d, padEnabled, displayEnabled, tip_racks,
                                 rackButtons, unlocatedEnabled, teachButtons,
                                 resLocation, nJogs, nSets, ptVars>>
         ELSE LET res == PathTeacher_set_location(pt_location, pt_displayValue,
                                                  picked_up_plate, args, moveOk)
              IN  /\ fail = 0
                  /\ IF res.ran
                     THEN /\ Faults(IF res.alert THEN 1 ELSE 0)
                          /\ UNCHANGED phase
                     ELSE /\ moveOk
                          /\ ExceptionLeavesSlot
                          /\ UNCHANGED nFaults
                  /\ pt_location' = res.loc
                  /\ pt_displayValue' = res.disp
                  /\ pt_controller_disabled' =
                       IF res.ran THEN FALSE ELSE pt_controller_disabled
                  /\ ptLast' = [PtIdle EXCEPT !.op = "gamepad",
                                              !.ok = res.ran /\ ~res.alert,
                                              !.alert = res.alert, !.raised = res.raised,
                                              !.pre = pt_location, !.cmds = res.cmds]
                  /\ UNCHANGED <<pt_d, pt_padEnabled, pt_displayEnabled,
                                 picked_up_plate, points, destination, python_code,
                                 buildPathEnabled, platesBoxEnabled,
                                 carrierSitesBoxEnabled, siteShown, gripped,
                                 pointsAdded, pointRemoved, nPathJogs, locatorVars>>
      /\ requests' = Tail(requests)
      /\ UNCHANGED <<index, tabEnabled, padPc, nEmits, alerts, setupVars, cliVars>>

\* ---------------------------------------------------------------- Move form
\* LocationDisplay: a line edit per axis and the Move button.

\* the fields at the click: typed[a] is what the operator typed for axis a, or
\* 0 for a field left as set_value wrote it. LocationDisplayLine.set_value
\* followed by get_field_value: the field shows str(round(value, 1)); a line
\* that never got a value is empty
Fields(dv, typed) ==
  [a \in Axes |-> IF typed[a] # 0 THEN Some(typed[a])
                  ELSE IF dv[a] = None THEN None
                  ELSE Some(Round1(dv[a][1]))]

\* LocationDisplayLine.has_changed for a line whose value is set
has_changed(field, value) == field # None /\ field[1] # value[1]

\* The operator types into the fields and clicks Move.  has_changed runs for
\* every text change: for a line whose value is still None it raises
\* TypeError.  Otherwise the button is enabled when some line has changed,
\* and LocationDisplay.move passes the three fields to set_location.
DisplayMove(typed, fail) ==
  LET fields == Fields(displayValue, typed)
      res    == set_location(_location, displayValue, channel, fields, fail)
  IN  /\ phase = "running" /\ index = 0
      /\ displayEnabled
      /\ nSets < MaxApiSets
      /\ nSets' = nSets + 1
      /\ IF \E a \in Axes : typed[a] # 0 /\ displayValue[a] = None
         THEN /\ fail = 0
              /\ last' = [Idle EXCEPT !.op = "display_move", !.args = fields,
                                      !.pre = _location, !.raised = "TypeError"]
              /\ ExceptionLeavesSlot
              /\ UNCHANGED <<_location, displayValue, channel, controller_disabled,
                             base, jogSum, jogsOk, nFaults>>
         ELSE /\ \E a \in Axes : has_changed(fields[a], displayValue[a])
              /\ FailOccurs(res, fail)
              /\ Faults(FaultCount(res))
              /\ _location' = res.loc
              /\ displayValue' = res.disp
              /\ channel' = res.chan
              /\ controller_disabled' = ControllerAfter(res, controller_disabled)
              /\ last' = [op |-> "display_move", who |-> "", args |-> fields,
                          pre |-> _location, cmds |-> res.cmds, ok |-> ~res.alert,
                          alert |-> res.alert, raised |-> res.raised]
              /\ base' = res.loc
              /\ jogSum' = <<0, 0, 0>>
              /\ jogsOk' = TRUE
              /\ UNCHANGED phase
      /\ UNCHANGED <<index, tabEnabled, prepared, invoked, _d, padEnabled,
                     displayEnabled, tip_racks, rackButtons, unlocatedEnabled,
                     teachButtons, resLocation, nJogs, ptVars, padVars, setupVars, cliVars>>

\* ------------------------------------------------------------ setup screen
\* LoadWidget._file_picked_callback: the file loads and deserializes (ok), the
\* new LiquidHandler replaces LoadWidget.lh and the Setup button is shown;
\* otherwise an alert is shown and nothing changes
file_picked_callback(ok) ==
  /\ phase = "loaded"
  /\ file_picker
  /\ lh <= MaxPicks
  /\ IF ok
     THEN /\ lh' = lh + 1
          /\ setup_button' = TRUE
     ELSE UNCHANGED <<lh, setup_button>>
  /\ UNCHANGED <<phase, index, tabEnabled, nFaults, file_picker, setup_threads,
                 setup_finished_signal, setup_alert, locatorVars, ptVars, padVars, cliVars>>

\* LoadWidget._setup, the slot of the Setup button: it hides the button,
\* disables the file picker and starts a setup thread
LoadWidget_setup ==
  /\ phase = "loaded"
  /\ setup_button
  /\ Len(setup_threads) < MaxSetupThreads
  /\ setup_button' = FALSE
  /\ file_picker' = FALSE
  /\ setup_threads' = Append(setup_threads, lh)
  /\ UNCHANGED <<phase, index, tabEnabled, nFaults, lh, setup_finished_signal,
                 setup_alert, locatorVars, ptVars, padVars, cliVars>>

\* setup(), the target of the i-th running setup thread: lh.setup() returns
\* or raises, and the thread emits setup_finished_signal with the outcome and
\* ends
SetupThread(i, ok) ==
  /\ i \in 1 .. Len(setup_threads)
  /\ Faults(IF ok THEN 0 ELSE 1)
  /\ setup_finished_signal' = Append(setup_finished_signal, ok)
  /\ setup_threads' = SubSeq(setup_threads, 1, i - 1)
                      \o SubSeq(setup_threads, i + 1, Len(setup_threads))
  /\ UNCHANGED <<phase, index, tabEnabled, lh, setup_button, file_picker, setup_alert,
                 locatorVars, ptVars, padVars, cliVars>>

\* variant: the callback is called whatever the outcome of the setup
setup_finished_callback_IgnoresOutcome ==
  /\ phase = "loaded"
  /\ setup_finished_signal # <<>>
  /\ setup_finished_signal' = Tail(setup_finished_signal)
  /\ phase' = "built"
  /\ setup_alert' = FALSE
  /\ UNCHANGED <<index, tabEnabled, nFaults, lh, setup_button, file_picker,
                 setup_threads, locatorVars, ptVars, padVars, cliVars>>

\* LoadWidget._setup_finished_callback, the slot the main thread runs for the
\* emission of a setup thread: on success the callback, Window._load_locator,
\* constructs TeachingTools and hides the setup screen; otherwise the Setup
\* button is shown again, the file picker is enabled and an alert is shown
setup_finished_callback ==
  /\ phase = "loaded"
  /\ setup_finished_signal # <<>>
  /\ setup_finished_signal' = Tail(setup_finished_signal)
  /\ IF Head(setup_finished_signal)
     THEN /\ phase' = "built"
          /\ setup_alert' = FALSE
          /\ UNCHANGED <<setup_button, file_picker>>
     ELSE /\ setup_button' = TRUE
          /\ file_picker' = TRUE
          /\ setup_alert' = TRUE
          /\ UNCHANGED phase
  /\ UNCHANGED <<index, tabEnabled, nFaults, lh, setup_threads, locatorVars, ptVars,
                 padVars, cliVars>>

\* -------------------------------------------------- the error alert's loop
\* show_error_alert ends in msg.exec(), which runs an event loop of its own
\* until the operator closes the alert.  The alert is modal: clicks and key
\* presses do not reach the window, but the slot of a queued
\* set_location_signal emission is called from that loop, inside the handler
\* that shows the alert.

\* TeachingTools.set_location_signal_handler on the Resource Locator tab, from
\* the oldest queued emission to the return of set_location or, when a move
\* raises, to msg.exec() in its except clause
SignalSlot(fail) ==
  LET sig  == Head(signals)
      args == [a \in Axes |-> FromFlag(sig[a])]
      res  == set_location(_location, displayValue, channel, args, fail)
  IN  /\ phase = "running" /\ index = 0
      /\ signals # <<>>
      /\ signals' = Tail(signals)
      /\ FailOccurs(res, fail)
      /\ Faults(FaultCount(res))
      /\ _location' = res.loc
      /\ displayValue' = res.disp
      /\ channel' = res.chan
      /\ IF res.alert
         THEN /\ alerts' = Append(alerts, "set_location")
              /\ controller_disabled' = TRUE
         ELSE /\ alerts' = alerts
              /\ controller_disabled' = ControllerAfter(res, controller_disabled)
      /\ last' = [op |-> "gamepad", who |-> "", args |-> args, pre |-> _location,
                  cmds |-> res.cmds, ok |-> ~res.alert, alert |-> res.alert,
                  raised |-> res.raised]
      /\ base' = res.loc
      /\ jogSum' = <<0, 0, 0>>
      /\ jogsOk' = TRUE
      /\ IF res.raised # "" THEN ExceptionLeavesSlot ELSE UNCHANGED phase
      /\ UNCHANGED <<index, tabEnabled, prepared, invoked, _d, padEnabled, displayEnabled,
                     tip_racks, rackButtons, unlocatedEnabled, teachButtons,
                     resLocation, nJogs, nSets, ptVars, padPc, nEmits, setupVars, cliVars>>
      /\ requests' = Tail(requests)

\* The operator closes the innermost alert: msg.exec() returns and the
\* finally clause of set_location runs
AlertClosed ==
  /\ alerts # <<>>
  /\ alerts' = SubSeq(alerts, 1, Len(alerts) - 1)
  /\ controller_disabled' = FALSE
  /\ UNCHANGED <<phase, index, tabEnabled, nFaults, prepared, invoked, channel,
                 _location, _d, padEnabled, displayEnabled, displayValue, tip_racks,
                 rackButtons, unlocatedEnabled, teachButtons, resLocation, last, base,
                 jogSum, jogsOk, nJogs, nSets, ptVars, padPc, signals, nEmits, requests,
                 setupVars, cliVars>>

\* GamepadListener.run for axis a in the runs of SpecLoop
LoopGamepadAxis(a, reading) == GamepadAxisUpTo(a, reading, MaxLoopSignals)

\* pick_up_tip_a1 and drop_tip_a1 in the runs of SpecLoop: the buttons can be
\* clicked while no alert is open, and the backend does not raise
LoopPickUpTip(rack) == alerts = <<>> /\ PickUpTip(rack, TRUE, 0)

LoopDropTip(rack) == alerts = <<>> /\ DropTip(rack, TRUE, 0)

\* ------------------------------------------ the single-file program
\* __main__.py holds the program as it was before it was split into app.py,
\* shared_widgets.py, resource_locator.py and path_teacher.py; the console
\* script of setup.py still starts it.  Its LocationEditorWidget keeps the
\* position as _x, _y, _z (0 after construction) and moves one axis per
\* set_x, set_y, set_z, each with a try block of its own.

\* Positions typed into the display of the single-file program in a run
LegacyTargets == {12345, 45000}

\* set_x, set_y, set_z called for the axes of order in turn with the values
\* args; the moves of the axes in fails raise.  Each call latches its axis,
\* commands the move and, unless the move raises, updates the display.
LegacySets(l, dv, ch, order, args, fails) ==
  LET Called(a) == \E i \in 1 .. Len(order) : order[i] = a
      Moved(a)  == Called(a) /\ a \notin fails
  IN  [loc   |-> [a \in Axes |-> IF Called(a) THEN args[a] ELSE l[a]],
       disp  |-> [a \in Axes |-> IF Moved(a) THEN Some(args[a]) ELSE dv[a]],
       chan  |-> [a \in Axes |-> IF Moved(a) THEN Some(args[a]) ELSE ch[a]],
       cmds  |-> [i \in 1 .. Len(order) |->
                   [axis |-> order[i], value |-> args[order[i]],
                    ok |-> order[i] \notin fails]],
       alert |-> \E a \in Axes : Called(a) /\ a \in fails]

\* the set_x, set_y, set_z calls of location_display_updated(x, y, z), in
\* the order it makes them: move_z_first = z > self._z
location_display_updated(l, args) ==
  (IF args[3] > l[3] THEN <<3>> ELSE <<>>)
    \o (IF l[1] # args[1] THEN <<1>> ELSE <<>>)
    \o (IF l[2] # args[2] THEN <<2>> ELSE <<>>)
    \o (IF args[3] < l[3] THEN <<3>> ELSE <<>>)

\* number of raising backend calls among the axes of order
LegacyFaults(order, fails) ==
  Cardinality({a \in fails : \E i \in 1 .. Len(order) : order[i] = a})

\* fails names only axes that are commanded
LegacyFailOccurs(order, fails) ==
  \A a \in fails : \E i \in 1 .. Len(order) : order[i] = a

\* LocationEditorWidget.start of __main__.py: set_x(350), set_y(100),
\* prepare_for_manual_channel_operation, set_z(300)
LegacyStart(fails, ok) ==
  LET args == <<35000, 10000, 30000>>
      res  == LegacySets(_location, displayValue, channel, <<1, 2, 3>>, args, fails)
  IN  /\ phase = "built"
      /\ phase' = "running"
      /\ index' = 0
      /\ Faults(Cardinality(fails) + (IF ok THEN 0 ELSE 1))
      /\ prepared' = (prepared \/ ok)
      /\ invoked' = TRUE
      /\ _location' = res.loc
      /\ displayValue' = res.disp
      /\ channel' = res.chan
      /\ last' = [op |-> "start", who |-> "", args |-> [a \in Axes |-> Some(args[a])],
                  pre |-> _location,
                  cmds |-> <<res.cmds[1], res.cmds[2],
                            [axis |-> 0, value |-> 0, ok |-> ok], res.cmds[3]>>,
                  ok |-> ok /\ ~res.alert, alert |-> ~ok \/ res.alert, raised |-> ""]
      /\ base' = res.loc
      /\ jogSum' = <<0, 0, 0>>
      /\ jogsOk' = TRUE
      /\ UNCHANGED <<tabEnabled, _d, controller_disabled, padEnabled, displayEnabled,
                     tip_racks, rackButtons, unlocatedEnabled, teachButtons,
                     resLocation, nJogs, nSets, ptVars, padVars, setupVars, cliVars>>

\* LocationEditorWidget.location_display_updated(x, y, z) of __main__.py,
\* called for the Move button of the display
LegacyDisplayUpdated(args, fails) ==
  LET order == location_display_updated(_location, args)
      res   == LegacySets(_location, displayValue, channel, order, args, fails)
  IN  /\ phase = "running"
      /\ nSets < MaxApiSets
      /\ nSets' = nSets + 1
      /\ LegacyFailOccurs(order, fails)
      /\ Faults(LegacyFaults(order, fails))
      /\ _location' = res.loc
      /\ displayValue' = res.disp
      /\ channel' = res.chan
      /\ last' = [op |-> "set_location", who |-> "",
                  args |-> [a \in Axes |-> Some(args[a])], pre |-> _location,
                  cmds |-> res.cmds, ok |-> ~res.alert, alert |-> res.alert,
                  raised |-> ""]
      /\ base' = res.loc
      /\ jogSum' = <<0, 0, 0>>
      /\ jogsOk' = TRUE
      /\ UNCHANGED <<phase, index, tabEnabled, prepared, invoked, _d,
                     controller_disabled, padEnabled, displayEnabled, tip_racks,
                     rackButtons, unlocatedEnabled, teachButtons, resLocation, nJogs,
                     ptVars, padVars, setupVars, cliVars>>

\* move_left .. move_up of __main__.py: set_x(self._x - self._d) and so on
LegacyMove(dir, failed) ==
  LET a     == MoveAxis(dir)
      args  == [_location EXCEPT ![a] = _location[a] + MoveDelta(dir, _d)]
      fails == IF failed THEN {a} ELSE {}
      res   == LegacySets(_location, displayValue, channel, <<a>>, args, fails)
  IN  /\ phase = "running"
      /\ nJogs < MaxApiJogs
      /\ nJogs' = nJogs + 1
      /\ Faults(Cardinality(fails))
      /\ _location' = res.loc
      /\ displayValue' = res.disp
      /\ channel' = res.chan
      /\ last' = [op |-> "jog", who |-> dir,
                  args |-> [b \in Axes |-> IF b = a THEN Some(args[a]) ELSE None],
                  pre |-> _location, cmds |-> res.cmds, ok |-> ~res.alert,
                  alert |-> res.alert, raised |-> ""]
      /\ jogSum' = CoordAdd(jogSum, SignedStep(dir, _d))
      /\ jogsOk' = (jogsOk /\ ~res.alert)
      /\ UNCHANGED <<phase, index, tabEnabled, prepared, invoked, _d,
                     controller_disabled, padEnabled, displayEnabled, tip_racks,
                     rackButtons, unlocatedEnabled, teachButtons, resLocation, base,
                     nSets, ptVars, padVars, setupVars, cliVars>>

\* LoadWidget._file_picked_callback of __main__.py: as in setup_screen.py,
\* with the global lh; the file picker is never disabled
Legacy_file_picked_callback(ok) ==
  /\ phase = "loaded"
  /\ lh <= MaxPicks
  /\ IF ok
     THEN /\ lh' = lh + 1
          /\ setup_button' = TRUE
     ELSE UNCHANGED <<lh, setup_button>>
  /\ UNCHANGED <<phase, index, tabEnabled, nFaults, file_picker, setup_threads,
                 setup_finished_signal, setup_alert, locatorVars, ptVars, padVars, cliVars>>

\* LoadWidget._setup of __main__.py: it hides the Setup button and starts a
\* setup thread
Legacy_setup ==
  /\ phase = "loaded"
  /\ setup_button
  /\ Len(setup_threads) < MaxSetupThreads
  /\ setup_button' = FALSE
  /\ setup_threads' = Append(setup_threads, lh)
  /\ UNCHANGED <<phase, index, tabEnabled, nFaults, lh, file_picker,
                 setup_finished_signal, setup_alert, locatorVars, ptVars, padVars, cliVars>>

\* LoadWidget._setup_finished_callback of __main__.py, for the first
\* successful setup and the failed ones before it: on success the callback,
\* Window._load_locator, shows TeachingTools; otherwise the Setup button is
\* shown again and an alert is shown
Legacy_setup_finished_callback ==
  /\ phase = "loaded"
  /\ setup_finished_signal # <<>>
  /\ setup_finished_signal' = Tail(setup_finished_signal)
  /\ IF Head(setup_finished_signal)
     THEN /\ phase' = "built"
          /\ setup_alert' = FALSE
          /\ UNCHANGED setup_button
     ELSE /\ setup_button' = TRUE
          /\ setup_alert' = TRUE
          /\ UNCHANGED phase
  /\ UNCHANGED <<index, tabEnabled, nFaults, lh, file_picker, setup_threads,
                 locatorVars, ptVars, padVars, cliVars>>

\* ------------------------------------------------ iSWAP command line: loop
\* CLI.run up to its loop: the position is read once from the iSWAP, or the
\* request raises and the program ends
CLI_run(pos, ok) ==
  /\ cliPc = "constructed"
  /\ IF ok
       THEN /\ cli' = [cli EXCEPT !.position = pos, !.star.reading = pos]
            /\ cliPc' = "running"
       ELSE /\ cli' = cli
            /\ cliPc' = "crashed"
  /\ UNCHANGED <<phase, index, tabEnabled, nFaults, key, nKeys, keyed, stepWhenOn,
                 locatorVars, ptVars, padVars, setupVars>>

\* The branch of process_key that key k takes, without the last statement
KeyBranch(c, k, ok) ==
  CASE k = "BACKSPACE" -> apply_reverse_last_action(c, ok)
    [] k \in DigitKeys -> [c EXCEPT !.input_buffer = Append(@, IF k = "0" THEN 0 ELSE 3)]
    [] k \in MoveKeys ->
         LET moved == move_arm(c, KeyAxis(k), KeyDistance(c, k), ok)
         IN  IF Raised(moved) THEN moved ELSE [moved EXCEPT !.input_buffer = <<>>]
    [] k \in {"r", "t"} ->
         LET turned == rotate_rotation_drive(
                         c, IF k = "r" THEN "counter-clockwise" ELSE "clockwise", ok)
         IN  IF Raised(turned) THEN turned ELSE [turned EXCEPT !.input_buffer = <<>>]
    [] k \in {"f", "g"} ->
         LET turned == rotate_wrist_drive(
                         c, IF k = "f" THEN "counter-clockwise" ELSE "clockwise", ok)
         IN  IF Raised(turned) THEN turned ELSE [turned EXCEPT !.input_buffer = <<>>]
    [] k = "+" -> adjust_step_size(c, PrecisionStep)
    [] k = "-" -> IF c.input_buffer = <<>> THEN adjust_step_size(c, 0 - PrecisionStep)
                  ELSE c
    [] k = "p" -> toggle_precision_mode(c)
    [] k = "ENTER" -> repeat_last_action(c, ok)
    [] k = "c" -> [c EXCEPT !.input_buffer = <<>>]
    [] OTHER -> c

\* One round of the loop of CLI.run with a key to process: process_key(k).
\* Backspace, a digit and q return before the last statement, which clears
\* reversing; an exception of the backend ends the program.
process_key(k, ok) ==
  LET branch == KeyBranch([cli EXCEPT !.star.cmds = <<>>], k, ok)
      returned == k \in {"BACKSPACE", "q"} \cup DigitKeys
  IN  /\ cliPc = "running"
      /\ nKeys < MaxKeys
      /\ nKeys' = nKeys + 1
      /\ key' = k
      /\ cli' = IF Raised(branch) \/ returned THEN branch
                ELSE [branch EXCEPT !.reversing = FALSE]
      /\ cliPc' = IF Raised(branch) THEN "crashed"
                  ELSE IF k = "q" THEN "exited" ELSE "running"
      /\ keyed' = IF Raised(branch) THEN keyed
                  ELSE IF k \in MoveKeys
                    THEN Some(MoveAction(KeyAxis(k), KeyDistance(cli, k)))
                  ELSE IF k \in {"r", "t"}
                    THEN Some(RotateAction("rotation", IF k = "r" THEN "counter-clockwise"
                                                       ELSE "clockwise"))
                  ELSE IF k \in {"f", "g"}
                    THEN Some(RotateAction("wrist", IF k = "f" THEN "counter-clockwise"
                                                    ELSE "clockwise"))
                  ELSE keyed
      /\ stepWhenOn' = IF k = "p" /\ ~cli.precision_mode THEN cli.step_size
                       ELSE stepWhenOn
      /\ UNCHANGED <<phase, index, tabEnabled, nFaults, locatorVars, ptVars, padVars,
                     setupVars>>

\* ------------------------------------------------------------ specification
Fails == 0 .. 3

Next ==
  \/ \E ok \in BOOLEAN : Start(ok)
  \/ \E i \in Tabs, ok \in BOOLEAN : TabChanged(i, ok)
  \/ \E d \in StepChoices : SetD(d)
  \/ \E dir \in Directions, fail \in Fails : PadJog(dir, fail)
  \/ \E dir \in Directions, fail \in Fails : KeyJog(dir, fail)
  \/ \E rack \in TipRackNames, ok \in BOOLEAN, fail \in Fails : PickUpTip(rack, ok, fail)
  \/ \E rack \in TipRackNames, ok \in BOOLEAN, fail \in Fails : DropTip(rack, ok, fail)
  \/ \E r \in UnlocatedNames : Teach(r)

Spec == Init /\ [][Next]_vars

\* ------------------------------------------- call-level specification
\* The operations of the jog model called directly, in any order and with any
\* arguments, from the state after construction: set_location(x, y, z) with
\* each argument omitted or given, move_<dir>, set_d.

\* ResourceLocatorWidget.set_location(x, y, z), called directly
ApiSetLocation(args, fail) ==
  LET res == set_location(_location, displayValue, channel, args, fail)
  IN  /\ nSets < MaxApiSets
      /\ nSets' = IF res.ran THEN nSets + 1 ELSE nSets
      /\ FailOccurs(res, fail)
      /\ Faults(FaultCount(res))
      /\ _location' = res.loc
      /\ displayValue' = res.disp
      /\ channel' = res.chan
      /\ controller_disabled' = ControllerAfter(res, controller_disabled)
      /\ last' = [op |-> "set_location", who |-> "", args |-> args, pre |-> _location,
                  cmds |-> res.cmds, ok |-> ~res.alert, alert |-> res.alert,
                  raised |-> res.raised]
      /\ base' = res.loc
      /\ jogSum' = <<0, 0, 0>>
      /\ jogsOk' = TRUE
      /\ UNCHANGED <<phase, index, tabEnabled, prepared, invoked, _d, padEnabled,
                     displayEnabled, tip_racks, rackButtons, unlocatedEnabled,
                     teachButtons, resLocation, nJogs, ptVars, padVars, setupVars, cliVars>>

\* move_left .. move_up, called directly
ApiMove(dir, fail) ==
  /\ nJogs < MaxApiJogs
  /\ Move(dir, fail, "jog")

\* set_d, called directly with a step of the pad
ApiSetD(d) ==
  /\ d \in StepOptions
  /\ set_d(d)

NextJog ==
  \/ \E args \in [Axes -> {None, Some(12345)}], fail \in Fails :
        ApiSetLocation(args, fail)
  \/ \E dir \in Directions, fail \in Fails : ApiMove(dir, fail)
  \/ \E d \in StepOptions : ApiSetD(d)

SpecJog == Init /\ [][NextJog]_vars

\* ------------------------------------------- held-item specification
\* The two tabs together: start-up, tab changes, tip pickup and drop in the
\* Resource Locator, plate pickup and release in the Path Teacher.

NextTabs ==
  \/ \E ok \in BOOLEAN : Start(ok)
  \/ \E i \in Tabs, ok \in BOOLEAN : TabChanged(i, ok)
  \/ \E rack \in TipRackNames, ok \in BOOLEAN, fail \in Fails : PickUpTip(rack, ok, fail)
  \/ \E rack \in TipRackNames, ok \in BOOLEAN, fail \in Fails : DropTip(rack, ok, fail)
  \/ \E plate \in PlateNames, ok \in BOOLEAN, moveOk \in BOOLEAN :
        PickUpPlate(plate, ok, moveOk)
  \/ \E target \in PutTargets, ok \in BOOLEAN, moveOk \in BOOLEAN :
        PutPlate(target, ok, moveOk)

SpecTabs == Init /\ [][NextTabs]_vars

\* ------------------------------------------- path-teacher specification
\* Start-up, tab changes and every handler of the Path Teacher, in runs in
\* which prepare_for_manual_channel_operation of the other tab returns.

NextPath ==
  \/ Start(TRUE)
  \/ \E i \in Tabs : TabChanged(i, TRUE)
  \/ \E plate \in PlateNames, ok \in BOOLEAN, moveOk \in BOOLEAN :
        PickUpPlate(plate, ok, moveOk)
  \/ \E target \in PutTargets, ok \in BOOLEAN, moveOk \in BOOLEAN :
        PutPlate(target, ok, moveOk)
  \/ AddIntermediate
  \/ \E row \in (0 - 1) .. (MaxPoints - 1) : RemovePoint(row)
  \/ \E dir \in Directions, moveOk \in BOOLEAN : PathPadJog(dir, moveOk)
  \/ \E dir \in Directions, moveOk \in BOOLEAN : PathKeyJog(dir, moveOk)
  \/ \E d \in StepChoices : PathSetD(d)

SpecPath == Init /\ [][NextPath]_vars

\* ------------------------------------------- gamepad specification
\* The setup thread and the gamepad thread next to the main thread, from the
\* setup screen on and while the Resource Locator tab is shown: the Setup
\* button, the setup thread and the slot of its signal, start-up, tip pickup
\* and drop, the pad and the keyboard, the steps of GamepadListener.run and
\* the slot of its signal.

InitPad == InitAt("loaded", None)

NextPad ==
  \/ LoadWidget_setup
  \/ \E i \in 1 .. MaxSetupThreads, ok \in BOOLEAN : SetupThread(i, ok)
  \/ setup_finished_callback
  \/ \E ok \in BOOLEAN : Start(ok)
  \/ \E rack \in TipRackNames, ok \in BOOLEAN, fail \in Fails : PickUpTip(rack, ok, fail)
  \/ \E rack \in TipRackNames, ok \in BOOLEAN, fail \in Fails : DropTip(rack, ok, fail)
  \/ \E dir \in Directions, fail \in Fails : PadJog(dir, fail)
  \/ \E dir \in Directions, fail \in Fails : KeyJog(dir, fail)
  \/ GamepadRead
  \/ \E a \in Axes : \E reading \in StickReadings[a] : GamepadAxis(a, reading)
  \/ \E fail \in Fails, moveOk \in BOOLEAN : set_location_signal_handler(fail, moveOk)

SpecPad == InitPad /\ [][NextPad]_vars

\* ------------------------------------------- setup-screen specification
\* The setup screen of setup_screen.py from a loaded layout file on, and what
\* Window._load_locator starts: picking another file, the Setup button, the
\* setup threads and the slot of their signal, start-up, tip pickup and drop,
\* and the pad.

NextSetup ==
  \/ \E ok \in BOOLEAN : file_picked_callback(ok)
  \/ LoadWidget_setup
  \/ \E i \in 1 .. MaxSetupThreads, ok \in BOOLEAN : SetupThread(i, ok)
  \/ setup_finished_callback
  \/ \E ok \in BOOLEAN : Start(ok)
  \/ \E rack \in TipRackNames, ok \in BOOLEAN, fail \in Fails : PickUpTip(rack, ok, fail)
  \/ \E rack \in TipRackNames, ok \in BOOLEAN, fail \in Fails : DropTip(rack, ok, fail)
  \/ \E dir \in Directions, fail \in Fails : PadJog(dir, fail)

SpecSetup == InitPad /\ [][NextSetup]_vars

\* The setup screen of __main__.py from a loaded layout file to the first
\* successful setup, and the start-up and the moves that follow it.

NextLegacySetup ==
  \/ \E ok \in BOOLEAN : Legacy_file_picked_callback(ok)
  \/ Legacy_setup
  \/ \E i \in 1 .. MaxSetupThreads, ok \in BOOLEAN : SetupThread(i, ok)
  \/ Legacy_setup_finished_callback
  \/ \E fails \in SUBSET Axes, ok \in BOOLEAN : LegacyStart(fails, ok)
  \/ \E dir \in Directions, failed \in BOOLEAN : LegacyMove(dir, failed)

SpecLegacySetup == InitAt("loaded", <<0, 0, 0>>) /\ [][NextLegacySetup]_vars

\* ------------------------------------------- hand-off specification
\* GamepadListener.set_location called with a target of 0, -1 or 123.45 for
\* one axis, and the slot of its signal, on the Resource Locator tab after
\* start-up and between tip pickups and drops.

NextHandOff ==
  \/ \E ok \in BOOLEAN : Start(ok)
  \/ \E rack \in TipRackNames, ok \in BOOLEAN, fail \in Fails : PickUpTip(rack, ok, fail)
  \/ \E rack \in TipRackNames, ok \in BOOLEAN, fail \in Fails : DropTip(rack, ok, fail)
  \/ \E a \in Axes, v \in {0, 0 - 100, 12345} : GamepadListener_set_location(a, v)
  \/ \E fail \in Fails, moveOk \in BOOLEAN : set_location_signal_handler(fail, moveOk)

SpecHandOff == Init /\ [][NextHandOff]_vars

\* ------------------------------------------- Move-form specification
\* The Resource Locator tab with the Move form of the position display:
\* start-up, tip pickup and drop, the pad, and the Move button.

NextMove ==
  \/ \E ok \in BOOLEAN : Start(ok)
  \/ \E rack \in TipRackNames, ok \in BOOLEAN, fail \in Fails : PickUpTip(rack, ok, fail)
  \/ \E rack \in TipRackNames, ok \in BOOLEAN, fail \in Fails : DropTip(rack, ok, fail)
  \/ \E dir \in Directions, fail \in Fails : PadJog(dir, fail)
  \/ \E typed \in [Axes -> {12345, 0}], fail \in Fails : DisplayMove(typed, fail)

SpecMove == Init /\ [][NextMove]_vars

\* ------------------------------------------- event-loop specification
\* The gamepad thread next to the main thread on the Resource Locator tab,
\* with the slot of the gamepad's signal in steps: start-up, tip pickup and
\* drop, the steps of GamepadListener.run, the slot up to the return of
\* set_location or to its error alert, and the closing of an alert.  The
\* backend raises only in moves that the gamepad requested.

NextLoop ==
  \/ Start(TRUE)
  \/ \E rack \in TipRackNames : LoopPickUpTip(rack)
  \/ \E rack \in TipRackNames : LoopDropTip(rack)
  \/ GamepadRead
  \/ \E a \in Axes : \E reading \in StickReadings[a] : LoopGamepadAxis(a, reading)
  \/ \E fail \in Fails : SignalSlot(fail)
  \/ AlertClosed

SpecLoop == Init /\ [][NextLoop]_vars

\* ------------------------------------------- single-file specification
\* The LocationEditorWidget of __main__.py from the state after construction:
\* start(), then location_display_updated(x, y, z) and move_<dir> in any
\* order, each axis given as it is or as one of LegacyTargets.

NextLegacy ==
  \/ \E fails \in SUBSET Axes, ok \in BOOLEAN : LegacyStart(fails, ok)
  \/ \E args \in [Axes -> LegacyTargets \cup {0}], fails \in SUBSET Axes :
        LegacyDisplayUpdated([a \in Axes |-> IF args[a] = 0 THEN _location[a]
                                              ELSE args[a]], fails)
  \/ \E dir \in Directions, failed \in BOOLEAN : LegacyMove(dir, failed)

SpecLegacy == InitWith(<<0, 0, 0>>) /\ [][NextLegacy]_vars

\* ------------------------------------------- iSWAP specification
\* The iSWAP command line (iswap.py): the start of CLI.run, then keys in any
\* order, each with a backend that returns or raises; the iSWAP is at
\* (300.0, 150.0, 150.0) at start-up.
NextCli ==
  \/ \E pos \in {[a \in CliAxes |-> IF a = "x" THEN 30000 ELSE 15000]}, ok \in BOOLEAN :
        CLI_run(pos, ok)
  \/ \E k \in Keys, ok \in BOOLEAN : process_key(k, ok)

SpecCli == Init /\ [][NextCli]_vars

\* ------------------------------------------------------------- properties

\* the last handler was a set_location of all three axes from a set position
\* in which the x move returned and the y move raised
YFailedAfterX ==
  /\ last.pre # None
  /\ \A a \in Axes : last.args[a] # None
  /\ Len(last.cmds) = 2
  /\ last.cmds[1].axis = 1 /\ last.cmds[1].ok
  /\ last.cmds[2].axis = 2 /\ ~last.cmds[2].ok

\* the last handler taught resource last.who and committed its location
Taught == last.op = "teach" /\ last.raised = ""

\* the landmark of a resource relative to its own origin: the center of well
\* A1 for a Plate, the top of the front left corner for any other resource
Landmark(r) ==
  IF IsPlate(r) THEN CoordAdd(A1Location(r), A1Center(r)) ELSE <<0, 0, SizeZ(r)>>

\* C1: after any sequence of relative jogs with step changes in between, all
\* of whose backend calls succeeded, the stored position is the position
\* before the jogs plus, per axis, the sum of the signed steps (left/right
\* -/+ on x, forward/back -/+ on y, down/up -/+ on z).
C1_JogsAddSignedSteps ==
  (base # None /\ jogsOk) => _location = CoordAdd(base, jogSum)

C1_Witness ==
  /\ base # None /\ jogsOk
  /\ nJogs = 2
  /\ jogSum[1] # 0 /\ jogSum[2] # 0
  /\ _d # DefaultD

\* C2: when the y move raises in a three-axis absolute set whose x move
\* succeeded, the stored position has the new x, the old y and the old z, and
\* the failure is reported.
C2_YFailureKeepsOldYZ ==
  YFailedAfterX =>
    /\ _location = <<last.args[1][1], last.pre[2], last.pre[3]>>
    /\ last.alert

\* C3: when the backend raises during a single-axis relative jog, the stored
\* position stays at its last committed value, which is where the channel was
\* last moved to, and the move is commanded once.
C3_FailedJogKeepsPosition ==
  (last.op = "jog" /\ ~last.ok) =>
    /\ _location = last.pre
    /\ Len(last.cmds) = 1

\* C4: a set_location while no position was ever set, with at least one axis
\* omitted, raises ValueError, leaves the position unset and commands no
\* backend move.
C4_IncompleteFirstSetRejected ==
  (last.op = "set_location" /\ last.pre = None /\ \E a \in Axes : last.args[a] = None) =>
    /\ last.raised = "ValueError"
    /\ _location = None
    /\ last.cmds = <<>>
    /\ channel = NoArgs

C4_Witness ==
  /\ last.op = "set_location"
  /\ last.pre = None
  /\ last.args[1] # None /\ last.args[3] # None
  /\ last.args[2] = None

\* C5: teaching a Plate at taught point T commits
\* location = T - A1.location - A1.center - parent absolute location on every
\* axis; P=(100,100,0), C=(5,5,0), M=(4,4,0), T=(200,250,50) mm gives
\* (91,141,50) mm.
C5_PlateLocation ==
  /\ (Taught /\ IsPlate(last.who)) =>
       LET P == get_absolute_location(ParentOf(last.who), resLocation)
       IN  \A a \in Axes :
             resLocation[last.who][a] =
               last.pre[a] - A1Location(last.who)[a] - A1Center(last.who)[a] - P[a]
  /\ PlateOffset(<<20000, 25000, 5000>>, <<500, 500, 0>>, <<400, 400, 0>>,
                 <<10000, 10000, 0>>) = <<9100, 14100, 5000>>

C5_Witness ==
  /\ Taught /\ IsPlate(last.who)
  /\ resLocation[last.who] # None
  /\ get_absolute_location(ParentOf(last.who), resLocation) # <<0, 0, 0>>

\* C6: teaching a resource that is not a Plate, of height H, at taught point
\* T commits location = T - (0,0,H) - parent absolute location; P=(0,0,0),
\* H=10, T=(50,60,70) mm gives (50,60,60) mm.
C6_BoxLocation ==
  /\ (Taught /\ ~IsPlate(last.who)) =>
       LET P == get_absolute_location(ParentOf(last.who), resLocation)
       IN  /\ resLocation[last.who][1] = last.pre[1] - P[1]
           /\ resLocation[last.who][2] = last.pre[2] - P[2]
           /\ resLocation[last.who][3] = last.pre[3] - SizeZ(last.who) - P[3]
  /\ BoxOffset(<<5000, 6000, 7000>>, 1000, <<0, 0, 0>>) = <<5000, 6000, 6000>>

C6_Witness ==
  /\ Taught /\ ~IsPlate(last.who)
  /\ resLocation[last.who] # None
  /\ nJogs > 0

\* C7 as stated: after teaching a resource at T, parent absolute location +
\* location equals T, for both conventions.
C7_AbsoluteLocationIsTaughtPoint ==
  Taught => get_absolute_location(last.who, resLocation) = last.pre

\* C7 amended: after teaching a resource at T, the absolute location of its
\* landmark (parent absolute location + location + A1.location + A1.center
\* for a Plate, + (0,0,H) otherwise) equals T.
C7_LandmarkIsTaughtPoint ==
  Taught =>
    CoordAdd(get_absolute_location(last.who, resLocation), Landmark(last.who)) = last.pre

C7_Witness ==
  /\ Taught
  /\ \A r \in UnlocatedNames : resLocation[r] # None
  /\ get_absolute_location(last.who, resLocation) # last.pre

\* C8: a committed location is never changed, and the teach control of a
\* located resource is disabled, through any teach, jog, tip pickup and drop.
C8_TaughtOnce ==
  [][\A r \in UnlocatedNames :
       /\ resLocation[r] # None => resLocation'[r] = resLocation[r]
       /\ resLocation'[r] # None => ~(unlocatedEnabled' /\ teachButtons'[r])]_vars

C8_Witness ==
  /\ resLocation["carrier"] # None
  /\ last.op = "pick_up_tip" /\ last.ok
  /\ unlocatedEnabled
  /\ _location # CoordAdd(get_absolute_location("carrier", resLocation),
                          Landmark("carrier"))

\* C9: when the backend raises during the drop, the rack still holds the tip
\* and its drop control is enabled again, so the drop can be retried.
C9_FailedDropReenablesButton ==
  (last.op = "drop_tip" /\ ~last.ok) =>
    /\ tip_racks[last.who]
    /\ rackButtons[last.who]

\* C10: when the backend raises during the pickup, no rack is marked as
\* holding a tip, the jog, absolute-position and teaching controls are
\* disabled, the position is unchanged and every rack's pickup control is
\* enabled again.
C10_FailedPickupLeavesNoTipHeld ==
  (last.op = "pick_up_tip" /\ ~last.ok) =>
    /\ \A r \in TipRackNames : ~tip_racks[r] /\ rackButtons[r]
    /\ ~padEnabled /\ ~displayEnabled /\ ~unlocatedEnabled
    /\ _location = last.pre

\* the racks marked as holding the tip
HeldRacks == {r \in TipRackNames : tip_racks[r]}

\* C11: at most one rack holds the tip, and while a tip is held no rack offers
\* a pickup (the button of the holding rack drops, the buttons of the other
\* racks are disabled), after any pickups and drops, failed ones included.
C11_OneTipHeld ==
  /\ Cardinality(HeldRacks) <= 1
  /\ HeldRacks # {} => \A q \in TipRackNames : ~tip_racks[q] => ~rackButtons[q]

C11_Witness ==
  /\ HeldRacks = {"tips2"}
  /\ rackButtons["tips2"]
  /\ last.op = "pick_up_tip" /\ last.ok /\ ~last.alert
  /\ nFaults = 1 /\ prepared

\* C12: the step in which a held tip is dropped leaves no rack holding a tip,
\* every rack offering a pickup, the pad, the position display, the teaching
\* controls and the keyboard controller disabled, and every tab enabled.
C12_DropRestoresNoTipHeld ==
  [][(\E r \in TipRackNames : tip_racks[r] /\ ~tip_racks'[r]) =>
       /\ \A q \in TipRackNames : ~tip_racks'[q] /\ rackButtons'[q]
       /\ ~padEnabled' /\ ~displayEnabled' /\ ~unlocatedEnabled'
       /\ controller_disabled'
       /\ \A t \in Tabs : tabEnabled'[t]]_vars

C12_Witness ==
  /\ last.op = "drop_tip" /\ last.ok
  /\ last.who = "tips2"
  /\ HeldRacks = {}
  /\ \A t \in Tabs : tabEnabled[t]

\* C13: in every reachable state, the initial one included, the pad, the
\* position display and the teaching controls are enabled exactly when a tip
\* is held.
C13_ControlsEnabledIffTipHeld ==
  /\ padEnabled <=> HeldRacks # {}
  /\ displayEnabled <=> HeldRacks # {}
  /\ unlocatedEnabled <=> HeldRacks # {}

\* C14: a tip and a plate are never held together; while a tip is held only
\* the Resource Locator tab is enabled, and while a plate is held only the
\* Path Teacher tab is enabled and shown.
C14_TipAndPlateNeverBothHeld ==
  /\ ~(HeldRacks # {} /\ picked_up_plate # None)
  /\ HeldRacks # {} => (tabEnabled[0] /\ ~tabEnabled[1] /\ index = 0)
  /\ picked_up_plate # None => (tabEnabled[1] /\ ~tabEnabled[0] /\ index = 1)

C14_Witness ==
  /\ picked_up_plate # None
  /\ last.op = "drop_tip" /\ last.ok
  /\ nFaults = 1

\* C15: while a plate is held the gripper holds that plate and no other, no
\* plate pickup can be requested (the plates box is disabled), and no step
\* replaces the held plate or issues a grip command.
C15_OnePlateHeld ==
  [][/\ gripped' = picked_up_plate'
     /\ picked_up_plate' # None => ~platesBoxEnabled'
     /\ picked_up_plate # None =>
          /\ picked_up_plate' \in {picked_up_plate, None}
          /\ \A i \in 1 .. Len(ptLast'.cmds) :
                ptLast' # ptLast => ptLast'.cmds[i].cmd # "pick_up_resource"]_vars

C15_Witness ==
  /\ picked_up_plate = Some("plateB")
  /\ Len(points) = 2
  /\ ptLast.op = "jog"
  /\ ~platesBoxEnabled

\* C16: every stored waypoint equals the position that was current when it
\* was added, whatever jogs, moves and releases follow.
C16_WaypointsAreSnapshots ==
  \A i \in 1 .. Len(points) : Deref(points[i], pt_location) = pointsAdded[i]

\* the last handler released the held plate
Released == ptLast.op = "put_plate" /\ ptLast.ok /\ ptLast.raised = ""

\* C17: after a successful release the recorded destination is the site, if
\* a site was given, and otherwise the coordinate at which the release was
\* commanded.
C17_DestinationIsTarget ==
  Released =>
    IF ptLast.site # ""
    THEN destination = SiteRef(ptLast.site)
    ELSE destination.kind \in {"object", "value"}
         /\ Deref(destination, pt_location) = ptLast.target

\* C18: when the backend raises during the release, the plate stays held,
\* the position, the controls and the tab locks are as before, the failure
\* is shown, and the release can be requested again.
C18_FailedReleaseCanBeRetried ==
  (ptLast.op = "put_plate" /\ ~ptLast.ok) =>
    /\ picked_up_plate = Some(ptLast.who) /\ gripped = picked_up_plate
    /\ pt_location = ptLast.pre
    /\ ptLast.alert
    /\ tabEnabled[1] /\ ~tabEnabled[0]
    /\ phase = "running" /\ carrierSitesBoxEnabled /\ buildPathEnabled

\* C19: the step in which a plate pickup succeeds goes from no plate held to
\* that plate held, and leaves the waypoint list empty and no destination
\* set, whatever the previous transfer left.
C19_PickupClearsPath ==
  [][(ptLast' # ptLast /\ ptLast'.op = "pick_up_plate" /\ ptLast'.ok) =>
       /\ picked_up_plate = None
       /\ picked_up_plate' = Some(ptLast'.who)
       /\ points' = <<>>
       /\ destination' = NoRef]_vars

C19_Witness ==
  /\ ptLast.op = "pick_up_plate" /\ ptLast.ok
  /\ ptLast.pre # None /\ ptLast.pre[3] = ReleaseZ
  /\ points = <<>> /\ destination = NoRef
  /\ Len(ptLast.cmds) = 2

\* C20: when the backend raises during the plate pickup, no plate is held,
\* the path-building controls, the pad, the position display and the keyboard
\* controller are disabled, every tab is enabled and the plates can be picked.
C20_FailedPickupStaysIdle ==
  (ptLast.op = "pick_up_plate" /\ ~ptLast.ok) =>
    /\ picked_up_plate = None /\ gripped = None
    /\ ~buildPathEnabled /\ ~pt_padEnabled /\ ~pt_displayEnabled
    /\ pt_controller_disabled
    /\ \A t \in Tabs : tabEnabled[t]
    /\ platesBoxEnabled
    /\ ptLast.alert

C22_AppendsKeepCallOrder ==
  (picked_up_plate # None /\ ~pointRemoved) =>
    /\ Len(points) = Len(pointsAdded)
    /\ \A i \in 1 .. Len(points) : Deref(points[i], pt_location) = pointsAdded[i]


\* the list seq without its entry in row row (rows count from 0)
Without(seq, row) == SubSeq(seq, 1, row) \o SubSeq(seq, row + 2, Len(seq))

C24_CodeReflectsBuilder ==
  LET out == write_python_code(destination, points, pt_location)
  IN  IF destination = NoRef /\ points = <<>>
      THEN out.call = "# add points or release plate to generate code"
      ELSE /\ out.call = "lh.move_plate"
           /\ destination = NoRef => out.to.word = "<destination>"
           /\ destination.kind = "site" =>
                (out.to.word = "lh.deck.get_resource" /\ out.to.name = destination.name)
           /\ destination.kind \in {"object", "value"} =>
                (out.to.word = "Coordinate" /\ out.to.at = Deref(destination, pt_location))
           /\ points = <<>> <=> out.intermediate_locations = None
           /\ points # <<>> =>
                /\ Len(out.intermediate_locations[1]) = Len(points)
                /\ \A i \in 1 .. Len(points) :
                      /\ out.intermediate_locations[1][i].word = "Coordinate"
                      /\ out.intermediate_locations[1][i].at = Deref(points[i], pt_location)

C24_Witness ==
  /\ destination.kind = "object"
  /\ points = <<>>
  /\ python_code.call = "lh.move_plate"
  /\ python_code.to.at # pt_location


\* the last handler was an absolute set from a set position that gave a new z
\* together with a new x or a new y
CombinedZUpdate ==
  /\ last.pre # None
  /\ \A a \in Axes : last.args[a] # None
  /\ last.args[3][1] # last.pre[3]
  /\ last.args[1][1] # last.pre[1] \/ last.args[2][1] # last.pre[2]

\* C25: in an absolute set that changes z together with x or y, the z move is
\* commanded after the x and y moves when the new z is greater than the
\* previous z, and before them when it is lower.
C25_ZOrderFollowsDirection ==
  CombinedZUpdate =>
    \A i, j \in 1 .. Len(last.cmds) :
      (last.cmds[i].axis = 3 /\ last.cmds[j].axis # 3) =>
        /\ last.args[3][1] > last.pre[3] => i > j
        /\ last.args[3][1] < last.pre[3] => i < j


\* C26: a jog request (pad, keyboard or gamepad) that is handled while no tip
\* is held in the Resource Locator, or while no plate is held in the Path
\* Teacher, commands no backend move and leaves the stored position as it is.
C26_LockedJogHasNoEffect ==
  [][/\ (index = 0 /\ HeldRacks = {} /\
           (nJogs' # nJogs \/ Len(signals') < Len(signals))) =>
          (last'.cmds = <<>> /\ _location' = _location /\ channel' = channel)
     /\ (index = 1 /\ picked_up_plate = None /\
           (nPathJogs' # nPathJogs \/ Len(signals') < Len(signals))) =>
          (ptLast'.cmds = <<>> /\ pt_location' = pt_location)]_vars


\* C27: in a handler that commands a channel move,
\* prepare_for_manual_channel_operation was called before that handler, or
\* earlier in it than the move.
C27_NoMoveBeforePrepare ==
  [][last' # last =>
       \A i \in 1 .. Len(last'.cmds) :
         last'.cmds[i].axis \in Axes =>
           \/ invoked
           \/ \E j \in 1 .. i - 1 : last'.cmds[j].axis = 0]_vars


\* C28: a step of the setup thread or of the gamepad thread changes nothing of
\* the two tabs (position, held tip or plate, resources): it only queues an
\* emission.  TeachingTools is constructed, and a position requested by the
\* gamepad is applied, only in a step of the main thread that takes the
\* oldest queued emission.
ThreadStep ==
  \/ padPc' # padPc
  \/ nEmits' # nEmits
  \/ Len(setup_threads') < Len(setup_threads)

C28_ThreadsOnlyEmit ==
  [][/\ ThreadStep =>
          /\ UNCHANGED <<phase, index, tabEnabled, locatorVars, ptVars>>
          /\ Len(signals') >= Len(signals)
          /\ Len(setup_finished_signal') >= Len(setup_finished_signal)
     /\ (last' # last /\ last'.op = "gamepad") =>
          (~ThreadStep /\ signals # <<>> /\ signals' = Tail(signals))
     /\ (phase = "loaded" /\ phase' # phase) =>
          /\ ~ThreadStep
          /\ setup_finished_signal # <<>> /\ Head(setup_finished_signal)
          /\ setup_finished_signal' = Tail(setup_finished_signal)]_vars

\* the setup thread has ended, TeachingTools runs, and a position emitted by
\* the gamepad thread was applied by the main thread
C28_Witness ==
  /\ phase = "running" /\ setup_threads = <<>> /\ setup_finished_signal = <<>>
  /\ last.op = "gamepad" /\ last.cmds # <<>> /\ ~last.alert
  /\ _location # last.pre
  /\ padPc # "dead" /\ nEmits = 1 /\ signals = <<>>


\* C29: a handler that changes the position begins only when every earlier
\* one has returned; the channel moves of a step are those of one handler, in
\* the order x, y, z; and the request a step applies is the oldest one that
\* is queued, a new request being queued behind the others.
C29_RunToCompletionInOrder ==
  [][/\ last' # last =>
          /\ alerts = <<>>
          /\ \A i, j \in 1 .. Len(last'.cmds) :
                i < j => last'.cmds[i].axis < last'.cmds[j].axis
     /\ signals' # signals =>
          \/ /\ signals # <<>> /\ signals' = Tail(signals)
             /\ last' # last
             /\ last'.args = [a \in Axes |-> FromFlag(Head(signals)[a])]
          \/ /\ signals' # <<>>
             /\ signals = SubSeq(signals', 1, Len(signals') - 1)
             /\ last' = last]_vars


\* C30: in an absolute set of two or three axes, a channel move that raises
\* is the last command of the call, and the call shows the error.
C30_FailureStopsLaterAxes ==
  [][(/\ last' # last /\ last'.op = "set_location"
      /\ Cardinality({a \in Axes : last'.args[a] # None}) >= 2) =>
       \A i \in 1 .. Len(last'.cmds) :
         ~last'.cmds[i].ok => (i = Len(last'.cmds) /\ last'.alert)]_vars


\* C31: an absolute set commands a channel move only for an axis whose
\* requested value differs from the stored value of that axis.
C31_OnlyChangedAxesCommanded ==
  [][(last' # last /\ last'.op \in {"display_move", "set_location"}
        /\ last'.pre # None) =>
       \A i \in 1 .. Len(last'.cmds) :
         last'.cmds[i].value # last'.pre[last'.cmds[i].axis]]_vars


\* C32: TeachingTools is constructed only by the slot of a successful setup,
\* once, and started after that; once it is constructed no setup runs or can
\* be requested.  The slot of a failed setup constructs and starts nothing,
\* shows the alert and shows the Setup button again.
C32_StartedOnceAfterSetup ==
  /\ [](phase # "loaded" =>
          (setup_threads = <<>> /\ setup_finished_signal = <<>> /\ ~setup_button))
  /\ [][/\ (phase = "loaded" /\ phase' # "loaded") =>
            /\ setup_finished_signal # <<>> /\ Head(setup_finished_signal)
            /\ phase' = "built"
        /\ phase # "loaded" => (phase' # "loaded" /\ (phase' = "built" => phase = "built"))
        /\ (invoked' /\ ~invoked) => phase = "built"
        /\ (Len(setup_finished_signal') < Len(setup_finished_signal)
              /\ ~Head(setup_finished_signal)) =>
            /\ phase' = "loaded" /\ ~invoked'
            /\ setup_alert' /\ setup_button']_vars

\* a first setup failed, another layout was picked, its setup succeeded and
\* the teaching tools were started
C32_Witness ==
  /\ phase = "running" /\ invoked /\ prepared
  /\ last.op = "none"
  /\ nFaults = 1 /\ lh = 2 /\ ~setup_alert

\* C33: at most one setup thread runs, and while one runs no step starts
\* another or replaces the loaded LiquidHandler.
C33_OneSetupWorker ==
  /\ [](Len(setup_threads) <= 1)
  /\ [][setup_threads # <<>> =>
          (lh' = lh /\ Len(setup_threads') <= Len(setup_threads))]_vars


\* C34: in the Path Teacher the keyboard controller is disabled whenever no
\* plate is held, and no jog that is requested while no plate is held reaches
\* set_location, whose assertion would fail.
C34_IdleControllerDisabled ==
  /\ [](picked_up_plate = None => pt_controller_disabled)
  /\ [][(picked_up_plate = None /\ ptLast' # ptLast /\ ptLast'.op = "jog") =>
          ptLast'.raised # "AssertionError"]_vars


\* C35: a move_picked_up_resource command is issued only while a plate is
\* gripped: after a pickup that succeeded, and never after the release
\* command of the same handler.
C35_PlateMovesOnlyWhileHeld ==
  [][ptLast' # ptLast =>
       \A j \in 1 .. Len(ptLast'.cmds) :
         ptLast'.cmds[j].cmd = "move_picked_up_resource" =>
           /\ ~\E i \in 1 .. j - 1 :
                 /\ ptLast'.cmds[i].cmd = "release_picked_up_resource"
                 /\ ptLast'.cmds[i].ok
           /\ \/ gripped # None
              \/ \E i \in 1 .. j - 1 :
                   /\ ptLast'.cmds[i].cmd = "pick_up_resource"
                   /\ ptLast'.cmds[i].ok]_vars


\* C36: the slot of the gamepad's signal calls set_location with the
\* arguments that GamepadListener.set_location was called with: the stored
\* position of the requested axis becomes the requested value, and the other
\* two axes stay as they are.
C36_HandOffKeepsValue ==
  [][(Len(signals') < Len(signals) /\ index = 0 /\ _location # None) =>
       /\ last'.args = Head(requests)
       /\ \A a \in Axes :
            _location'[a] = IF Head(requests)[a] # None THEN Head(requests)[a][1]
                            ELSE _location[a]]_vars


\* The orientation one place from o in the given direction along the list,
\* or o itself at the end of the list
Stepped(orientations, o, direction) ==
  LET i == IndexOf(orientations, o)
      j == IF direction = "counter-clockwise" THEN i - 1 ELSE i + 1
  IN  IF j \in 1 .. Len(orientations) THEN orientations[j] ELSE o

\* The step processes key k, and every command it sent returned
KeyStep(k) == nKeys' = nKeys + 1 /\ key' = k /\ cliPc' = "running"

\* The step performs action a and nothing else on the iSWAP: a move commands
\* exactly that distance on that axis; a rotation takes that drive one place
\* in that direction (as far as its range goes) and leaves the other drive
Performs(a) ==
  IF a.type = "move"
    THEN /\ Len(cli'.star.cmds) = 1
         /\ cli'.star.cmds[1].cmd = MoveCmd(a.axis_or_arm, a.value, TRUE).cmd
         /\ cli'.star.cmds[1].distance = a.value
    ELSE /\ \A i \in 1 .. Len(cli'.star.cmds) : cli'.star.cmds[i].distance = 0
         /\ cli'.rotation_drive_orientation =
              IF a.axis_or_arm = "rotation"
                THEN Stepped(RotationDriveOrientations, cli.rotation_drive_orientation,
                             a.direction)
                ELSE cli.rotation_drive_orientation
         /\ cli'.wrist_rotation =
              IF a.axis_or_arm = "wrist"
                THEN Stepped(WristOrientations, cli.wrist_rotation, a.direction)
                ELSE cli.wrist_rotation

\* C37: Enter performs again the last move or rotation that the operator
\* performed with a movement or rotation key, whatever keys came in between,
\* Backspace included.
C37_EnterRepeatsKeyedAction ==
  [][(KeyStep("ENTER") /\ keyed # None) => Performs(keyed[1])]_vars


\* C38: Backspace performs the reverse of the recorded last action (a move:
\* the negated distance on the same axis; a rotation: the opposite direction
\* on the same drive) and leaves last_action as it was.
C38_ReverseKeepsLastAction ==
  [][(KeyStep("BACKSPACE") /\ cli.last_action # None) =>
       LET action == cli.last_action[1]
       IN  /\ Performs([action EXCEPT !.value = 0 - @,
                                      !.direction = IF action.type = "rotate"
                                                      THEN Opposite(@) ELSE @])
           /\ cli'.last_action = cli.last_action]_vars


\* C39: while the program runs, each position line shows the position read
\* at start-up plus the sum of the relative moves commanded on that axis
\* since (those that returned).
C39_ShownPositionFollowsMoves ==
  cliPc = "running" =>
    \A a \in CliAxes : Shown(cli, a) = Round1(cli.star.reading[a] + cli.star.moved[a])


\* C40: the step size is never below 0.1 mm (10); the P key toggles precision
\* mode; turning it on sets the step size to 0.1 mm, and turning it off sets
\* the step size to what it was when the mode was turned on.
C40_PrecisionStep ==
  /\ [](cli.step_size >= 10)
  /\ [][KeyStep("p") =>
          /\ cli'.precision_mode = ~cli.precision_mode
          /\ cli'.precision_mode => cli'.step_size = 10
          /\ ~cli'.precision_mode => cli'.step_size = stepWhenOn]_vars

\* precision mode was turned on at 1.1 mm, the step was changed while it was
\* on, and it has just been turned off
C40_Witness ==
  /\ cliPc = "running"
  /\ key = "p"
  /\ nKeys = 4
  /\ ~cli.precision_mode
  /\ stepWhenOn = 110
  /\ cli.step_size = 110


====
